---------------------------- MODULE Spec2Model ----------------------------
(***************************************************************************)
(* A model of the manifest fetch and push engine of the docker CLI         *)
(* `manifest` command group:                                               *)
(*   - getImageData   (cli/command/manifest/fetch.go, lines 432-571)       *)
(*   - putManifestList (cli/command/manifest/push.go, lines 108-262)       *)
(* Each command runs as one sequential process; the only state that        *)
(* outlives an invocation is the on-disk staging store.                    *)
(***************************************************************************)
EXTENDS Integers, Sequences, FiniteSets, TLC

(***************************************************************************)
(* Bounds of the model.                                                    *)
(***************************************************************************)
\* longest endpoint list LookupPullEndpoints returns
MaxEndpoints == 3

\* longest endpoint list LookupPushEndpoints returns
MaxPushEndpoints == 2

\* most records staged in the transaction of a push
MaxRecords == 2

\* longest endpoint list given to selectPushEndpoint on its own
MaxSelectEndpoints == 3

(***************************************************************************)
(* Program constants.                                                      *)
(***************************************************************************)
APIVersion1 == 1
APIVersion2 == 2

\* net/http
StatusCreated == 201

(***************************************************************************)
(* References (docker/distribution/reference).  A reference is kept in     *)
(* its parsed form; RefString gives its string form as a sequence of       *)
(* tokens, separators included, so that the file-safe encoding has         *)
(* something to replace.                                                   *)
(***************************************************************************)
MkRef(d, p, t, g) == [domain |-> d, path |-> p, tag |-> t, digest |-> g]

\* reference.ParseNormalizedNamed fails on a string with no repository path
ParseOK(s) == s.path # <<>>

\* reference.ParseNormalizedNamed: default domain, and the "library/"
\* prefix of official images
ParseNormalizedNamed(s) ==
    LET d == IF s.domain = "" THEN "docker.io" ELSE s.domain
        p == IF d = "docker.io" /\ Len(s.path) = 1
                THEN <<"library">> \o s.path ELSE s.path
    IN  [s EXCEPT !.domain = d, !.path = p]

\* _, isDigested := ref.(reference.Canonical)
IsDigested(r) == r.digest # ""

\* faulty variant of TagNameOnly: the default tag replaces the tag given
TagNameOnlyAlways(r) == [r EXCEPT !.tag = "latest"]

\* reference.TagNameOnly: the default tag for a name-only reference
TagNameOnly(r) ==
    IF r.tag = "" /\ r.digest = "" THEN [r EXCEPT !.tag = "latest"] ELSE r

\* the normalisation getImageData and constructTargetRefs apply after parsing
WithDefaultTag(r) == IF ~IsDigested(r) THEN TagNameOnly(r) ELSE r

RECURSIVE JoinPath(_)
JoinPath(p) ==
    IF Len(p) = 0 THEN <<>>
    ELSE IF Len(p) = 1 THEN <<p[1]>>
    ELSE <<p[1], "/">> \o JoinPath(Tail(p))

\* reference.Named.String()
RefString(r) ==
    <<r.domain, "/">> \o JoinPath(r.path)
      \o (IF r.tag # "" THEN <<":", r.tag>> ELSE <<>>)
      \o (IF r.digest # "" THEN <<"@", "sha256", ":", r.digest>> ELSE <<>>)

\* reference.Path: the repository path without the domain
RefPath(r) == JoinPath(r.path)

\* the position of the first token c of s; 0 when there is none
IndexOf(s, c) ==
    IF \E i \in DOMAIN s : s[i] = c
       THEN CHOOSE i \in DOMAIN s : s[i] = c /\ \A k \in DOMAIN s : s[k] = c => i <= k
       ELSE 0

\* the string of a reference read back: "@" opens the digest, the ":"
\* before it the tag, the first component is the domain and the components
\* after it, between the "/", are the path
ParseString(str) ==
    LET at      == IndexOf(str, "@")
        base    == IF at > 0 THEN SubSeq(str, 1, at - 1) ELSE str
        colon   == IndexOf(base, ":")
        named   == IF colon > 0 THEN SubSeq(base, 1, colon - 1) ELSE base
    IN  [domain |-> IF Len(named) > 0 THEN named[1] ELSE "",
         path   |-> [i \in 1..((Len(named) - 1) \div 2) |-> named[2 * i + 1]],
         tag    |-> IF colon > 0 THEN base[colon + 1] ELSE "",
         digest |-> IF at > 0 THEN str[at + 3] ELSE ""]

\* faulty variant of makeFilesafeName: every encoding adds a '_' at the end
makeFilesafeNameSuffixing(s) ==
    [i \in 1..(Len(s) + 1) |->
        IF i > Len(s) THEN "_"
        ELSE IF s[i] = ":" THEN "-" ELSE IF s[i] = "/" THEN "_" ELSE s[i]]

\* makeFilesafeName: ':' becomes '-' and '/' becomes '_'
makeFilesafeName(s) ==
    IF s = <<>> THEN <<>>
    ELSE [i \in 1..Len(s) |->
            IF s[i] = ":" THEN "-" ELSE IF s[i] = "/" THEN "_" ELSE s[i]]

(***************************************************************************)
(* Errors.  An error value has one dynamic type; a wrapping error carries  *)
(* the wrapped one in `inner`.                                             *)
(***************************************************************************)
MkErr(t, c, in, a) == [type |-> t, code |-> c, inner |-> in, arg |-> a]

Nil == MkErr("nil", "", <<>>, <<>>)

ErrCode(c)        == MkErr("errcode.Error", c, <<>>, <<>>)
ErrNoSupport(e)   == MkErr("distribution.ErrNoSupport", "", <<e>>, <<>>)
ErrConfigPull     == MkErr("ImageConfigPullError", "", <<>>, <<>>)
Recoverable(e)    == MkErr("recoverableError", "", <<e>>, <<>>)
ErrParse(s)       == MkErr("parse", "", <<>>, s)
ErrLookup         == MkErr("lookup", "", <<>>, <<>>)
ErrV1Unsupported  == MkErr("errorString", "v1 registries are no longer supported", <<>>, <<>>)
ErrUnknownVersion(ep) ==
    MkErr("errorString", "unknown version", <<>>, <<ep.Scheme, ep.Host>>)
ErrNoEndpoints(normalName) ==
    MkErr("errorString", "no endpoints found for", <<>>, normalName)


(***************************************************************************)
(* continueOnError (fetch.go 630-657): which raw protocol errors justify   *)
(* trying the next endpoint.                                               *)
(***************************************************************************)
RECURSIVE continueOnError(_)
continueOnError(err) ==
    CASE err.type = "errcode.Errors" ->
            IF Len(err.inner) = 0 THEN TRUE ELSE continueOnError(err.inner[1])
      [] err.type = "distribution.ErrNoSupport" -> continueOnError(err.inner[1])
      [] err.type = "errcode.Error" ->
            err.code \in {"UNAUTHORIZED", "MANIFEST_UNKNOWN", "NAME_UNKNOWN"}
      [] err.type = "client.UnexpectedHTTPResponseError" -> TRUE
      [] err.type = "ImageConfigPullError" -> FALSE
      [] OTHER -> TRUE

\* faulty variant of IsRecoverableError: every error falls back
IsRecoverableErrorAny(err) == err.type # "nil"

\* err.(recoverableError): a type assertion on the dynamic type
IsRecoverableError(err) == err.type = "recoverableError"

\* err.(distribution.ErrNoSupport): a type assertion on the dynamic type
IsErrNoSupport(err) == err.type = "distribution.ErrNoSupport"

(***************************************************************************)
(* Manifest records (ImgManifestInspect).                                  *)
(***************************************************************************)
MediaTypeManifest == "application/vnd.docker.distribution.manifest.v2+json"

MkImg(ref, dgst, arch, os, refs, json) ==
    [RefName |-> ref, Digest |-> dgst, MediaType |-> MediaTypeManifest,
     Size |-> Len(refs), Architecture |-> arch, OS |-> os, References |-> refs,
     CanonicalJSON |-> json]

\* digest.Validate / digest.Parse accept the well-formed digests only
WellFormedDigests ==
    { "sha256:m0", "sha256:m1", "sha256:m2", "sha256:m3", "sha256:m4",
      "sha256:b1", "sha256:b2", "sha256:l1", "sha256:zz" }

DigestValid(d) == d \in WellFormedDigests

(***************************************************************************)
(* The registry as seen through manifestFetcher.Fetch: the raw protocol    *)
(* errors it can meet and the images it can return for a reference.        *)
(***************************************************************************)
\* an I/O error of the storage-exhaustion class (ENOSPC) as the os package
\* returns it: a type the switch of continueOnError has no case for
ErrNoSpace == MkErr("os.PathError", "no space left on device", <<>>, <<>>)

FetchRawErrors ==
    { ErrCode("UNAUTHORIZED"),
      ErrNoSupport(ErrCode("MANIFEST_UNKNOWN")),
      ErrNoSupport(ErrCode("DENIED")),
      ErrConfigPull,
      ErrNoSpace }

\* a single-platform manifest, or the platform manifests of a manifest list
RegistryImages(ref) ==
    { << MkImg(ref, "sha256:m1", "amd64", "linux", <<"sha256:b1">>, "j1") >>,
      << MkImg(ref, "sha256:m1", "amd64", "linux", <<"sha256:b1">>, "j1"),
         MkImg(ref, "sha256:m2", "arm64", "linux", <<"sha256:b2">>, "j2") >> }

\* manifestFetcher.Fetch: the images, or the error; an error continueOnError
\* accepts comes back wrapped as a recoverableError
FetchOutcomes(ref) ==
    { [images |-> imgs, err |-> Nil] : imgs \in RegistryImages(ref) }
      \cup
    { [images |-> <<>>,
       err |-> IF continueOnError(e) THEN Recoverable(e) ELSE e] :
          e \in FetchRawErrors }

(***************************************************************************)
(* The staging store: the files below the manifest base directory.  An    *)
(* entry is one file, `dir` its transaction directory (<<>> for the base   *)
(* directory itself) and `file` its name.                                  *)
(***************************************************************************)
MkEntry(d, f, r) == [dir |-> d, file |-> f, rec |-> r]

\* mfToFilename: <base>/<file-safe transaction>/<file-safe manifest>
mfToFilename(manifest, transaction) ==
    [dir |-> makeFilesafeName(transaction), file |-> makeFilesafeName(manifest)]

\* the entries of one directory
DirEntries(st, d) == { e \in st : e.dir = d }

\* a path of the base directory that is a transaction directory
IsDirectory(st, p) == p # <<>> /\ DirEntries(st, p) # {}

\* a path of the base directory that is a regular file
IsFile(st, p) == \E e \in st : e.dir = <<>> /\ e.file = p

\* all orders a directory listing can come in
Listings(S) ==
    { q \in [1..Cardinality(S) -> S] : \A i, j \in DOMAIN q : i # j => q[i] # q[j] }

\* faulty variant of loadManifest: the manifest is found in any transaction
loadManifestAnyTransaction(st, manifest, transaction) ==
    LET k == mfToFilename(manifest, transaction)
        found == { e \in st : e.file = k.file }
    IN  IF found = {} THEN <<>> ELSE << (CHOOSE e \in found : TRUE).rec >>

\* loadManifest: the one staged manifest of (manifest, transaction), if any
loadManifest(st, manifest, transaction) ==
    LET k == mfToFilename(manifest, transaction)
        found == { e \in st : e.dir = k.dir /\ e.file = k.file }
    IN  IF found = {} THEN <<>> ELSE << (CHOOSE e \in found : TRUE).rec >>

\* loadManifestList: the records of a transaction, in each order the
\* directory can be listed in
loadManifestList(st, transaction) ==
    LET d == makeFilesafeName(transaction)
    IN  { [i \in DOMAIN q |-> q[i].rec] : q \in Listings(DirEntries(st, d)) }

\* whether updateMfFile can write (name, transaction): the transaction
\* directory must not be a file, nor the manifest file a directory
CanWrite(st, name, transaction) ==
    LET k == mfToFilename(name, transaction)
    IN  /\ ~(k.dir # <<>> /\ IsFile(st, k.dir))
        /\ ~(k.dir = <<>> /\ IsDirectory(st, k.file))

\* storeManifest on success: the transaction is encoded (line 416) and
\* updateMfFile overwrites the entry of the same key
storeManifest(st, img, name, transaction) ==
    LET k == mfToFilename(name, makeFilesafeName(transaction))
    IN  { e \in st : ~(e.dir = k.dir /\ e.file = k.file) }
          \cup { MkEntry(k.dir, k.file, img) }

(***************************************************************************)
(* Inputs of the model.                                                    *)
(***************************************************************************)
\* the image names a user passes: a bare name, and a string that is no
\* reference
InputNames ==
    { MkRef("", <<"app">>, "", ""),
      MkRef("", <<>>, "", "") }

\* the transaction ids a caller passes: none (<<>>) or the name of a list
InputTransactions ==
    { <<>>, << MkRef("reg", <<"org", "list">>, "", "") >>, << MkRef("", <<>>, "", "") >> }

\* registry.APIEndpoint: API version, URL scheme and URL host; version 3
\* stands for a version the client does not know.  The v2 endpoints cover
\* both schemes of two hosts; a v1 and an unknown-version endpoint are added.
Endpoints ==
    [Version : {APIVersion2}, Scheme : {"https", "http"}, Host : {"A", "B"}]
    \cup { [Version |-> APIVersion1, Scheme |-> "http", Host |-> "B"],
           [Version |-> 3, Scheme |-> "https", Host |-> "B"] }

\* the endpoint lists LookupPullEndpoints can return
EndpointLists == UNION { [1..n -> Endpoints] : n \in 0..MaxEndpoints }

(***************************************************************************)
(* State.                                                                  *)
(***************************************************************************)
VARIABLES
    pc,                      \* position of the running command
    store,                   \* the staging store (on disk)
    store0,                  \* the staging store when the command started
    retErr,                  \* the error the command returns
    \* getImageData
    name,                    \* argument: the image name as the user gave it
    transaction,             \* argument: the transaction id (<<>>: none)
    fetchOnly,               \* argument
    namedRef,                \* the parsed reference, default tag attached
    normalName,              \* namedRef.String()
    transactionID,           \* file-safe transaction id ("" is <<>>)
    endpoints,               \* result of LookupPullEndpoints
    idx,                     \* position of the range loop over endpoints
    lastErr,
    discardNoSupportErrors,
    confirmedTLSRegistries,
    foundImages,             \* the records getImageData returns
    lookups,                 \* number of LookupPullEndpoints calls made
    events,                  \* what the loop did at each endpoint, in order
    \* putManifestList
    args,                    \* the positional arguments of `manifest push`
    listed,                  \* getListFilenames has been called
    purge,                   \* opts.purge
    file,                    \* opts.file (<<>>: not given)
    fullTargetRef,           \* the target reference, default tag attached
    targetRepoName,          \* repository name used to address the target
    targetEndpoint,          \* the push endpoint selected
    manifests,               \* the staged files, in the order they were listed
    manifestList,            \* the descriptors of the list to push
    blobMountRequests,
    manifestRequests,
    bi,                      \* position of mountBlobs in blobMountRequests
    mi,                      \* position of pushReferences in manifestRequests
    requests,                \* the registry requests issued, in order
    \* makeImgManifestInspect
    mfInfo,                  \* argument: what the registry served for one manifest
    mediaType,               \* argument: the media type of what was served
    \* selectPushEndpoint
    pushEndpoints,           \* what LookupPushEndpoints returned
    indexSecure              \* repoInfo.Index.Secure

fetchVars ==
    <<name, transaction, fetchOnly, namedRef, normalName, transactionID, endpoints, idx, lastErr,
      discardNoSupportErrors, confirmedTLSRegistries, foundImages, lookups, events>>

pushVars ==
    <<args, listed, purge, file, fullTargetRef, targetRepoName, targetEndpoint, manifests, manifestList,
      blobMountRequests, manifestRequests, bi, mi, requests>>

inspectVars == <<mfInfo, mediaType>>

selectVars == <<pushEndpoints, indexSecure>>

vars == <<pc, store, store0, retErr, fetchVars, pushVars, inspectVars, selectVars>>

\* no call of selectPushEndpoint is under way
SelectIdle ==
    /\ pushEndpoints = <<>>
    /\ indexSecure = TRUE

SelectReset ==
    /\ pushEndpoints' = <<>>
    /\ indexSecure' = TRUE

\* manifestInfo: digest, platform, blob digests, length and bytes
MkInfo(dgst, arch, os, blobs, json) ==
    [digest |-> dgst, platform |-> [Architecture |-> arch, OS |-> os],
     blobDigests |-> blobs, length |-> Len(blobs), jsonBytes |-> json]

NoInfo == MkInfo("", "", "", <<>>, "")

\* no call of makeImgManifestInspect is under way
InspectIdle ==
    /\ mfInfo = NoInfo
    /\ mediaType = ""

InspectReset ==
    /\ mfInfo' = NoInfo
    /\ mediaType' = ""

NoRef == MkRef("", <<>>, "", "")

NoEndpoint == [Scheme |-> "", TrimHostname |-> FALSE]

\* the frame of putManifestList before a call
PushIdle ==
    /\ args = <<>>
    /\ listed = FALSE
    /\ purge = FALSE
    /\ file = <<>>
    /\ fullTargetRef = NoRef
    /\ targetRepoName = <<>>
    /\ targetEndpoint = NoEndpoint
    /\ manifests = <<>>
    /\ manifestList = <<>>
    /\ blobMountRequests = <<>>
    /\ manifestRequests = <<>>
    /\ bi = 0
    /\ mi = 0
    /\ requests = <<>>

\* the frame is dropped when the process ends
PushReset ==
    /\ args' = <<>>
    /\ listed' = FALSE
    /\ purge' = FALSE
    /\ file' = <<>>
    /\ fullTargetRef' = NoRef
    /\ targetRepoName' = <<>>
    /\ targetEndpoint' = NoEndpoint
    /\ manifests' = <<>>
    /\ manifestList' = <<>>
    /\ blobMountRequests' = <<>>
    /\ manifestRequests' = <<>>
    /\ bi' = 0
    /\ mi' = 0
    /\ requests' = <<>>

\* the frame of getImageData before a call
FetchIdle ==
    /\ name = NoRef
    /\ transaction = <<>>
    /\ fetchOnly = FALSE
    /\ namedRef = NoRef
    /\ normalName = <<>>
    /\ transactionID = <<>>
    /\ endpoints = <<>>
    /\ idx = 0
    /\ lastErr = Nil
    /\ discardNoSupportErrors = FALSE
    /\ confirmedTLSRegistries = {}
    /\ foundImages = <<>>
    /\ lookups = 0
    /\ events = <<>>

\* the frame is dropped when the process ends
FetchReset ==
    /\ name' = NoRef
    /\ transaction' = <<>>
    /\ fetchOnly' = FALSE
    /\ namedRef' = NoRef
    /\ normalName' = <<>>
    /\ transactionID' = <<>>
    /\ endpoints' = <<>>
    /\ idx' = 0
    /\ lastErr' = Nil
    /\ discardNoSupportErrors' = FALSE
    /\ confirmedTLSRegistries' = {}
    /\ foundImages' = <<>>
    /\ lookups' = 0
    /\ events' = <<>>

\* the staging stores a fetch can start from: empty, a single manifest
\* staged without a transaction, one staged in a transaction, and a
\* manifest list created under the name
StagedImg(ref, d) == MkImg(ref, d, "amd64", "linux", <<"sha256:b1">>, "j0")

FetchInitStores ==
    LET app  == WithDefaultTag(ParseNormalizedNamed(MkRef("", <<"app">>, "", "")))
        tx   == WithDefaultTag(ParseNormalizedNamed(MkRef("reg", <<"org", "list">>, "", "")))
        base == MkRef("reg", <<"org", "base">>, "v1", "")
    IN  { {},
          { MkEntry(<<>>, makeFilesafeName(RefString(app)), StagedImg(app, "sha256:m0")) },
          { MkEntry(makeFilesafeName(RefString(tx)), makeFilesafeName(RefString(app)),
                    StagedImg(app, "sha256:m0")) },
          { MkEntry(makeFilesafeName(RefString(app)), makeFilesafeName(RefString(base)),
                    StagedImg(base, "sha256:m3")),
            MkEntry(makeFilesafeName(RefString(app)), makeFilesafeName(RefString(app)),
                    StagedImg(app, "sha256:m0")) } }

\* a `manifest inspect` or `manifest create` process about to call getImageData
InitFetch ==
    /\ pc = "idle"
    /\ store \in FetchInitStores
    /\ store0 = store
    /\ retErr = Nil
    /\ FetchIdle
    /\ PushIdle
    /\ InspectIdle
    /\ SelectIdle

(***************************************************************************)
(* getImageData (fetch.go 432-571).                                        *)
(***************************************************************************)
\* the reference parsing of lines 444-461
NamedRefOf(nm) == WithDefaultTag(ParseNormalizedNamed(nm))

TransactionIDOf(txn) ==
    IF txn = <<>> THEN <<>>
    ELSE makeFilesafeName(RefString(WithDefaultTag(ParseNormalizedNamed(txn[1]))))

\* a return of getImageData: (images, err)
Return(images, err) ==
    /\ pc' = "done"
    /\ foundImages' = images
    /\ retErr' = err

\* lines 444-455: a name or a transaction id that does not parse
ParseFails(nm, txn, fo) ==
    /\ UNCHANGED <<pushVars, inspectVars, selectVars>>
    /\ pc = "idle"
    /\ \/ ~ParseOK(nm) /\ Return(<<>>, ErrParse(RefString(nm)))
       \/ /\ ParseOK(nm)
          /\ txn # <<>> /\ ~ParseOK(txn[1])
          /\ Return(<<>>, ErrParse(RefString(txn[1])))
    /\ name' = nm
    /\ transaction' = txn
    /\ fetchOnly' = fo
    /\ store0' = store
    /\ UNCHANGED <<store, namedRef, normalName, transactionID, endpoints, idx, lastErr,
                   discardNoSupportErrors, confirmedTLSRegistries, lookups, events>>

ParsesOK(nm, txn) == ParseOK(nm) /\ (txn # <<>> => ParseOK(txn[1]))

\* faulty variant of LocalLookup: the manifest list staged under the name is
\* not looked for
LocalLookupSingleOnly(st, normal, tid) ==
    { loadManifest(st, makeFilesafeName(normal), tid) }

\* lines 474-489: what the staging store holds for the name: the single
\* manifest of (name, transaction), else the manifest list staged under the
\* name in any order of its directory, else nothing (<<>>)
LocalLookup(st, normal, tid) ==
    LET single == loadManifest(st, makeFilesafeName(normal), tid)
    IN  IF Len(single) > 0 THEN {single} ELSE loadManifestList(st, normal)

\* lines 444-503: parse, look in the staging store, look the endpoints up
GetImageData(nm, txn, fo) ==
    /\ UNCHANGED <<pushVars, inspectVars, selectVars>>
    /\ pc = "idle"
    /\ ParsesOK(nm, txn)
    /\ name' = nm
    /\ transaction' = txn
    /\ fetchOnly' = fo
    /\ store0' = store
    /\ namedRef' = NamedRefOf(nm)
    /\ normalName' = RefString(namedRef')
    /\ transactionID' = TransactionIDOf(txn)
    /\ \E local \in LocalLookup(store, normalName', transactionID') :
          IF Len(local) > 0
             THEN \* staged: no reason to pull from the registry
                  /\ Return(local, Nil)
                  /\ UNCHANGED <<endpoints, idx, lookups>>
             ELSE \* LookupPullEndpoints, which can fail
                  /\ lookups' = lookups + 1
                  /\ \/ /\ Return(<<>>, ErrLookup)
                        /\ UNCHANGED <<endpoints, idx>>
                     \/ /\ endpoints' \in EndpointLists
                        /\ idx' = 1
                        /\ pc' = "loop"
                        /\ UNCHANGED <<foundImages, retErr>>
    /\ UNCHANGED <<store, lastErr, discardNoSupportErrors, confirmedTLSRegistries, events>>

\* faulty variant of SkipV1: v1 endpoints go on to newManifestFetcher
SkipV1Never(endpoint) == FALSE

\* line 509: v1 endpoints are skipped
SkipV1(endpoint) == endpoint.Version = APIVersion1

\* faulty variant of SkipNonTLS: the set of hosts is asked for the scheme
SkipNonTLSByScheme(endpoint, confirmed) ==
    endpoint.Scheme # "https" /\ endpoint.Scheme \in confirmed

\* lines 514-519: a non-TLS endpoint of a host that appears to use TLS
SkipNonTLS(endpoint, confirmed) ==
    endpoint.Scheme # "https" /\ endpoint.Host \in confirmed

\* newManifestFetcher (573-586): the error it returns, Nil when it returns
\* a fetcher
newManifestFetcher(endpoint) ==
    IF endpoint.Version = APIVersion2 THEN Nil
    ELSE IF endpoint.Version = APIVersion1 THEN ErrV1Unsupported
    ELSE ErrUnknownVersion(endpoint)

\* lines 532-534: an https endpoint that answered confirms TLS for its host
ConfirmTLS(endpoint, confirmed) ==
    IF endpoint.Scheme = "https" THEN confirmed \cup {endpoint.Host} ELSE confirmed

\* lines 535-544: the last error kept after a recoverable error
KeepLastErr(err, last, discard) ==
    IF ~IsErrNoSupport(err) THEN err
    ELSE IF ~discard THEN err
    ELSE last

\* lines 535-538: whether later ErrNoSupport errors are discarded
KeepDiscard(err, discard) ==
    IF ~IsErrNoSupport(err) THEN TRUE ELSE discard

\* faulty variant of StoreTransaction: the transaction given is kept
StoreTransactionKeep(tid, normal, images) == tid

\* line 551-553: the transaction a fetched manifest list is stored under
StoreTransaction(tid, normal, images) ==
    IF tid = <<>> /\ Len(images) > 1 THEN normal ELSE tid

Event(k, e, imgs) == [idx |-> idx, kind |-> k, err |-> e, images |-> imgs]

InLoop == pc = "loop" /\ idx \in 1..Len(endpoints)

\* the loop reaches the fetch of endpoints[idx]
Tried(endpoint) ==
    /\ ~SkipV1(endpoint)
    /\ ~SkipNonTLS(endpoint, confirmedTLSRegistries)
    /\ newManifestFetcher(endpoint) = Nil

\* `continue` of the range loop
Continue(k, e) ==
    /\ idx' = idx + 1
    /\ events' = Append(events, Event(k, e, <<>>))
    /\ UNCHANGED <<pc, store, store0, retErr, name, transaction, fetchOnly, namedRef, normalName,
                   transactionID, endpoints, foundImages, lookups>>

\* lines 509-519: the endpoint is skipped
SkipEndpoint ==
    /\ UNCHANGED <<pushVars, inspectVars, selectVars>>
    /\ InLoop
    /\ \/ /\ SkipV1(endpoints[idx])
          /\ Continue("skip-v1", Nil)
       \/ /\ ~SkipV1(endpoints[idx])
          /\ SkipNonTLS(endpoints[idx], confirmedTLSRegistries)
          /\ Continue("skip-tls", Nil)
    /\ UNCHANGED <<lastErr, discardNoSupportErrors, confirmedTLSRegistries>>

\* faulty variant of FetcherErrKept: the error gives way to one kept before
\* once errors are being discarded
FetcherErrTieBreak(err, last, discard) == IF discard THEN last ELSE err

\* line 525: lastErr = err, whatever was kept before
FetcherErrKept(err, last, discard) == err

\* lines 523-527: no fetcher for the endpoint
FetcherFails ==
    /\ UNCHANGED <<pushVars, inspectVars, selectVars>>
    /\ InLoop
    /\ ~SkipV1(endpoints[idx])
    /\ ~SkipNonTLS(endpoints[idx], confirmedTLSRegistries)
    /\ newManifestFetcher(endpoints[idx]) # Nil
    /\ lastErr' = FetcherErrKept(newManifestFetcher(endpoints[idx]), lastErr,
                                 discardNoSupportErrors)
    /\ Continue("no-fetcher", newManifestFetcher(endpoints[idx]))
    /\ UNCHANGED <<discardNoSupportErrors, confirmedTLSRegistries>>

\* lines 529-546: the fetch fails with a recoverableError
FetchRecoverable ==
    /\ UNCHANGED <<pushVars, inspectVars, selectVars>>
    /\ InLoop
    /\ Tried(endpoints[idx])
    /\ \E out \in FetchOutcomes(namedRef) :
          /\ out.err # Nil
          /\ IsRecoverableError(out.err)
          /\ confirmedTLSRegistries' = ConfirmTLS(endpoints[idx], confirmedTLSRegistries)
          /\ discardNoSupportErrors' = KeepDiscard(out.err, discardNoSupportErrors)
          /\ lastErr' = KeepLastErr(out.err, lastErr, discardNoSupportErrors)
          /\ Continue("fetch", out.err)

\* lines 547-548: any other error ends the fetch
FetchFatal ==
    /\ UNCHANGED <<pushVars, inspectVars, selectVars>>
    /\ InLoop
    /\ Tried(endpoints[idx])
    /\ \E out \in FetchOutcomes(namedRef) :
          /\ out.err # Nil
          /\ ~IsRecoverableError(out.err)
          /\ Return(<<>>, out.err)
          /\ events' = Append(events, Event("fetch", out.err, <<>>))
    /\ UNCHANGED <<store, store0, name, transaction, fetchOnly, namedRef, normalName, transactionID,
                   endpoints, idx, lastErr, discardNoSupportErrors,
                   confirmedTLSRegistries, lookups>>

\* faulty variant of ReturnAfterStore: a write that failed fails the call
ReturnAfterStoreFailing(e, written) ==
    IF written THEN e ELSE MkErr("errorString", "error storing manifests", <<>>, <<>>)

\* lines 558-562: the error returned once storeManifest has returned; its
\* failure is logged and not returned
ReturnAfterStore(e, written) == e

\* lines 551-562 with `e` as the error returned
FetchSucceedsWith(e) ==
    /\ UNCHANGED <<pushVars, inspectVars, selectVars>>
    /\ InLoop
    /\ Tried(endpoints[idx])
    /\ \E out \in FetchOutcomes(namedRef) :
          /\ out.err = Nil
          /\ LET tid == StoreTransaction(transactionID, normalName, out.images)
                 fname == makeFilesafeName(normalName)
             IN  /\ transactionID' = tid
                 /\ IF fetchOnly
                       THEN /\ store' = store
                            /\ Return(out.images, e)
                       ELSE \E written \in BOOLEAN :
                              /\ written => CanWrite(store, fname, tid)
                              /\ store' = IF written
                                             THEN storeManifest(store, out.images[1], fname, tid)
                                             ELSE store
                              /\ Return(out.images, ReturnAfterStore(e, written))
          /\ events' = Append(events, Event("fetch", Nil, out.images))
    /\ UNCHANGED <<store0, name, transaction, fetchOnly, namedRef, normalName, endpoints,
                   idx, lastErr, discardNoSupportErrors, confirmedTLSRegistries, lookups>>

\* faulty variant of FetchSucceeds: the last error recorded is returned with
\* the images
FetchSucceedsWithLastErr == FetchSucceedsWith(lastErr)

\* lines 551-562: the fetch succeeds; the first image is staged unless the
\* call is an inspect; a failed write is logged and nothing else
FetchSucceeds == FetchSucceedsWith(Nil)

\* faulty variant of NoEndpointsErr: the last error is returned as it is
NoEndpointsErrNever(last, normal) == last

\* lines 565-567: the error made up when the loop recorded none
NoEndpointsErr(last, normal) ==
    IF last = Nil THEN ErrNoEndpoints(normal) ELSE last

\* lines 565-569: every endpoint was skipped or failed
Exhausted ==
    /\ UNCHANGED <<pushVars, inspectVars, selectVars>>
    /\ pc = "loop"
    /\ idx > Len(endpoints)
    /\ lastErr' = NoEndpointsErr(lastErr, normalName)
    /\ Return(<<>>, lastErr')
    /\ UNCHANGED <<store, store0, name, transaction, fetchOnly, namedRef, normalName,
                   transactionID, endpoints, idx, discardNoSupportErrors,
                   confirmedTLSRegistries, lookups, events>>

\* getImageData has returned and the process ends; the store stays on disk
FetchExit ==
    /\ pc = "done"
    /\ pc' = "idle"
    /\ retErr' = Nil
    /\ store0' = store
    /\ FetchReset
    /\ UNCHANGED <<store, pushVars, inspectVars, selectVars>>

NextFetch ==
    \/ \E nm \in InputNames, txn \in InputTransactions, fo \in BOOLEAN :
          \/ ParseFails(nm, txn, fo)
          \/ GetImageData(nm, txn, fo)
    \/ SkipEndpoint
    \/ FetcherFails
    \/ FetchRecoverable
    \/ FetchFatal
    \/ FetchSucceeds
    \/ Exhausted
    \/ FetchExit

\* the fetch commands: getImageData run to its return, any number of times
SpecFetch == InitFetch /\ [][NextFetch]_vars

(***************************************************************************)
(* putManifestList (push.go 108-262).                                      *)
(***************************************************************************)
ErrString(msg, a) == MkErr("errorString", msg, <<>>, a)

\* errors.Wrap / errors.Wrapf
Wrap(e, msg) == MkErr("wrapped", msg, <<e>>, <<>>)

\* strings.LastIndex over the tokens of a string; 0 stands for -1
LastIndex(s, c) ==
    IF \E i \in DOMAIN s : s[i] = c
       THEN CHOOSE i \in DOMAIN s : s[i] = c /\ \A k \in DOMAIN s : s[k] = c => k <= i
       ELSE 0

\* lines 264-304: the three forms of the target reference
constructTargetRefs(argv, fl) ==
    LET initialRef == IF fl # <<>> THEN fl[1] ELSE argv[1]
        full       == WithDefaultTag(ParseNormalizedNamed(initialRef))
        str        == RefString(full)
        tagIndex   == LastIndex(str, ":")
        tag        == str[tagIndex + 1]
    IN  IF ~ParseOK(initialRef)
           THEN [err |-> Wrap(ErrParse(RefString(initialRef)), "error parsing name for manifest list"),
                 fullTargetRef |-> NoRef, targetRef |-> NoRef, bareRef |-> NoRef]
        ELSE IF tagIndex = 0
           THEN [err |-> ErrString("malformed reference", <<>>),
                 fullTargetRef |-> NoRef, targetRef |-> NoRef, bareRef |-> NoRef]
        ELSE [err |-> Nil,
              fullTargetRef |-> full,
              targetRef |-> MkRef("", full.path, tag, ""),
              bareRef |-> MkRef("", full.path, "", "")]

\* getListFilenames: the files of the transaction directory, in each order
\* the directory can be listed in
getListFilenames(st, txn) ==
    Listings(DirEntries(st, makeFilesafeName(txn)))

\* unmarshalIntoManifestInspect: the record a staged file holds
unmarshalIntoManifestInspect(e) == e.rec

\* faulty variant of selectPushEndpoint: the first http endpoint is taken
selectPushEndpointFirstHttp(eps, secure) ==
    LET http == { i \in DOMAIN eps : eps[i].Scheme = "http" }
    IN  IF ~secure /\ http # {}
           THEN eps[CHOOSE i \in http : \A k \in http : i <= k]
           ELSE eps[1]

\* lines 468-476: the first endpoint, or for an insecure index the last
\* http endpoint of the list
selectPushEndpoint(eps, secure) ==
    LET http == { i \in DOMAIN eps : eps[i].Scheme = "http" }
    IN  IF ~secure /\ http # {}
           THEN eps[CHOOSE i \in http : \A k \in http : k <= i]
           ELSE eps[1]

\* lines 444-450: the repository name the target is addressed by
setupRepo(endpoint, full) ==
    IF endpoint.TrimHostname THEN RefPath(full)
    ELSE <<full.domain, "/">> \o RefPath(full)

\* faulty variant of buildManifestObj: the registries are not compared
buildManifestObjAnyRegistry(full, mfInspect) ==
    LET manifestRef == ParseNormalizedNamed(mfInspect.RefName)
    IN  IF ~ParseOK(mfInspect.RefName) \/ ~DigestValid(mfInspect.Digest)
           THEN [err |-> ErrParse(RefString(mfInspect.RefName)), manifest |-> <<>>,
                 repoInfo |-> NoRef]
        ELSE [err |-> Nil,
              manifest |-> << [Digest |-> mfInspect.Digest, Size |-> mfInspect.Size,
                               MediaType |-> mfInspect.MediaType,
                               Architecture |-> mfInspect.Architecture,
                               OS |-> mfInspect.OS] >>,
              repoInfo |-> manifestRef]

\* faulty variant of buildManifestObj: the digest is not validated
buildManifestObjAnyDigest(full, mfInspect) ==
    LET manifestRef == ParseNormalizedNamed(mfInspect.RefName)
    IN  IF ~ParseOK(mfInspect.RefName)
           THEN [err |-> ErrParse(RefString(mfInspect.RefName)), manifest |-> <<>>,
                 repoInfo |-> NoRef]
        ELSE IF manifestRef.domain # full.domain
           THEN [err |-> ErrString("cannot use source images from a different registry than the target image",
                                   <<manifestRef.domain, full.domain>>),
                 manifest |-> <<>>, repoInfo |-> NoRef]
        ELSE [err |-> Nil,
              manifest |-> << [Digest |-> mfInspect.Digest, Size |-> mfInspect.Size,
                               MediaType |-> mfInspect.MediaType,
                               Architecture |-> mfInspect.Architecture,
                               OS |-> mfInspect.OS] >>,
              repoInfo |-> manifestRef]

\* lines 325-362: the descriptor of one staged record
buildManifestObj(full, mfInspect) ==
    LET manifestRef == ParseNormalizedNamed(mfInspect.RefName)
    IN  IF ~ParseOK(mfInspect.RefName)
           THEN [err |-> ErrParse(RefString(mfInspect.RefName)), manifest |-> <<>>,
                 repoInfo |-> NoRef]
        ELSE IF manifestRef.domain # full.domain
           THEN [err |-> ErrString("cannot use source images from a different registry than the target image",
                                   <<manifestRef.domain, full.domain>>),
                 manifest |-> <<>>, repoInfo |-> NoRef]
        ELSE IF ~DigestValid(mfInspect.Digest)
           THEN [err |-> Wrap(ErrString("invalid digest", <<mfInspect.Digest>>),
                              "Digest parse of image failed"),
                 manifest |-> <<>>, repoInfo |-> NoRef]
        ELSE [err |-> Nil,
              manifest |-> << [Digest |-> mfInspect.Digest, Size |-> mfInspect.Size,
                               MediaType |-> mfInspect.MediaType,
                               Architecture |-> mfInspect.Architecture,
                               OS |-> mfInspect.OS] >>,
              repoInfo |-> manifestRef]

\* faulty variant of buildBlobMountRequestLists: only the first blob of the
\* record is asked for
buildBlobMountRequestListsFirstBlob(mfstInspect, targetName, mfRepoName) ==
    [bmr |-> IF Len(mfstInspect.References) = 0 THEN <<>>
             ELSE << [FromRepo |-> mfRepoName, Digest |-> mfstInspect.References[1]] >>,
     mr  |-> << [Name |-> mfRepoName, Digest |-> mfstInspect.Digest,
                 JSONBytes |-> mfstInspect.CanonicalJSON,
                 MediaType |-> mfstInspect.MediaType] >>]

\* lines 364-385: the blobs to mount and the manifest to push for a record
\* of another repository
buildBlobMountRequestLists(mfstInspect, targetName, mfRepoName) ==
    [bmr |-> [i \in DOMAIN mfstInspect.References |->
                 [FromRepo |-> mfRepoName, Digest |-> mfstInspect.References[i]]],
     mr  |-> << [Name |-> mfRepoName, Digest |-> mfstInspect.Digest,
                 JSONBytes |-> mfstInspect.CanonicalJSON,
                 MediaType |-> mfstInspect.MediaType] >>]

NoPlan == [err |-> Nil, manifestList |-> <<>>, bmr |-> <<>>, mr |-> <<>>]

\* faulty variant of AppendManifest: the descriptor is put in front
PrependManifest(list, manifest) == manifest \o list

\* line 176: manifestList.Manifests = append(manifestList.Manifests, manifest)
AppendManifest(list, manifest) == list \o manifest

\* faulty variant of AppendMounts: a blob already asked for is left out
AppendMountsOnce(list, bmr) ==
    LET Asked(d) == \E k \in DOMAIN list : list[k].Digest = d
        New(b)   == ~Asked(b.Digest)
    IN  list \o SelectSeq(bmr, New)

\* line 183: blobMountRequests = append(blobMountRequests, bmr...)
AppendMounts(list, bmr) == list \o bmr

\* faulty variant of MissingPlatform: only the OS is looked at
MissingPlatformOSOnly(mfstInspect) == mfstInspect.OS = ""

\* line 169: the test of the record's platform fields
MissingPlatform(mfstInspect) == mfstInspect.Architecture = "" \/ mfstInspect.OS = ""

\* lines 161-185: the loop over the staged files; `broken` is the set of
\* files that do not unmarshal
RECURSIVE BuildPlan(_, _, _, _, _)
BuildPlan(files, full, targetName, broken, acc) ==
    IF files = <<>> THEN acc
    ELSE
      LET mfstInspect == unmarshalIntoManifestInspect(files[1])
          obj         == buildManifestObj(full, mfstInspect)
          mfRepoName  == RefPath(obj.repoInfo)
          reqs        == buildBlobMountRequestLists(mfstInspect, targetName, mfRepoName)
      IN  IF files[1] \in broken
             THEN [NoPlan EXCEPT !.err = MkErr("unmarshal", "", <<>>, files[1].file)]
          ELSE IF MissingPlatform(mfstInspect)
             THEN [NoPlan EXCEPT !.err =
                      ErrString("malformed manifest object. cannot push to registry", <<>>)]
          ELSE IF obj.err # Nil
             THEN [NoPlan EXCEPT !.err = obj.err]
          ELSE BuildPlan(Tail(files), full, targetName, broken,
                 IF targetName # mfRepoName
                    THEN [acc EXCEPT !.manifestList = AppendManifest(@, obj.manifest),
                                     !.bmr = AppendMounts(@, reqs.bmr),
                                     !.mr = @ \o reqs.mr]
                    ELSE [acc EXCEPT !.manifestList = AppendManifest(@, obj.manifest)])

\* faulty variant of statusSuccess: every answer counts as a success
statusSuccessAlways(status) == TRUE

\* faulty variant of statusSuccess: the 2xx class alone counts as a success
statusSuccess2xx(status) == status >= 200 /\ status <= 299

\* lines 597-599
statusSuccess(status) == status >= 200 /\ status <= 399

\* faulty variant of BareRefOf: the tagged target is handed to pushReferences
BareRefOfTagged(full) == MkRef("", full.path, full.tag, "")

\* the target reference without domain and tag, as constructTargetRefs
\* returns it in bareRef
BareRefOf(full) == MkRef("", full.path, "", "")

\* the target reference without domain, with its tag: targetRef
TargetRefOf(full) == MkRef("", full.path, full.tag, "")

\* reference.WithDigest
WithDigest(ref, dgst) == [ref EXCEPT !.digest = dgst]

\* urlBuilder.BuildManifestURL: /v2/<name>/manifests/<reference>, where the
\* reference is the tag of a tagged reference and else its digest
BuildManifestURL(ref) ==
    [name |-> RefPath(ref),
     reference |-> IF ref.tag # "" THEN ref.tag ELSE ref.digest]

\* the media type of the payload of a manifest list
MediaTypeManifestList == "application/vnd.docker.distribution.manifest.list.v2+json"

\* the command lines of `manifest push`: no argument, the target, two
\* arguments, and a string that is no reference
PushTarget == MkRef("", <<"myorg", "app">>, "", "")

PushArgs == { <<>>, <<PushTarget>>, <<PushTarget, PushTarget>>, <<NoRef>> }

\* opts.file: not given, or a YAML file naming the target image
PushFiles == { <<>>, <<PushTarget>> }

\* registry.APIEndpoint as the push uses it
PushEndpoints == [Scheme : {"https", "http"}, TrimHostname : BOOLEAN]

\* the endpoint lists LookupPushEndpoints can return
PushEndpointLists == UNION { [1..n -> PushEndpoints] : n \in 1..MaxPushEndpoints }

\* the records `manifest create` and `manifest annotate` can have staged for
\* the target: of the target repository, of two other repositories of the
\* same registry, of another registry, without architecture, and with a
\* digest that is not well formed
StagedRecords ==
    { MkImg(MkRef("", <<"myorg", "app">>, "v1", ""), "sha256:m1", "amd64", "linux",
            <<"sha256:b1">>, "j1"),
      MkImg(MkRef("", <<"other", "img">>, "v1", ""), "sha256:m2", "arm64", "linux",
            <<"sha256:b1", "sha256:b2">>, "j2"),
      MkImg(MkRef("", <<"third", "img">>, "v1", ""), "sha256:m3", "amd64", "windows",
            <<"sha256:b2">>, "j3"),
      MkImg(MkRef("reg", <<"org", "img">>, "v1", ""), "sha256:m4", "amd64", "linux",
            <<"sha256:b1">>, "j4"),
      MkImg(MkRef("", <<"other", "img">>, "v2", ""), "sha256:m0", "", "linux",
            <<"sha256:b1">>, "j5"),
      MkImg(MkRef("", <<"other", "img">>, "v3", ""), "bogus", "s390x", "linux",
            <<"sha256:b1">>, "j6") }

\* the file of a record staged in the transaction of the target
StagedEntry(rec) ==
    MkEntry(makeFilesafeName(RefString(WithDefaultTag(ParseNormalizedNamed(PushTarget)))),
            makeFilesafeName(RefString(WithDefaultTag(ParseNormalizedNamed(rec.RefName)))),
            rec)

\* a manifest staged outside every transaction
UnrelatedEntry ==
    LET app == WithDefaultTag(ParseNormalizedNamed(MkRef("", <<"app">>, "", "")))
    IN  MkEntry(<<>>, makeFilesafeName(RefString(app)), StagedImg(app, "sha256:m0"))

\* the staging stores a push can start from
PushInitStores ==
    { {UnrelatedEntry} \cup { StagedEntry(r) : r \in S } :
        S \in { T \in SUBSET StagedRecords : Cardinality(T) <= MaxRecords } }

\* a `manifest push` process about to call putManifestList
InitPush ==
    /\ pc = "idle"
    /\ store \in PushInitStores
    /\ store0 = store
    /\ retErr = Nil
    /\ FetchIdle
    /\ PushIdle
    /\ InspectIdle
    /\ SelectIdle

\* faulty variant of PushPC: the referenced manifests are pushed first
PushPCRefsFirst(b, m, bmr, mr) ==
    IF m <= Len(mr) THEN "refs"
    ELSE IF b <= Len(bmr) THEN "mount"
    ELSE "put"

\* lines 227-238: mountBlobs runs through its list, then pushReferences
\* through its own, then the list is put
PushPC(b, m, bmr, mr) ==
    IF b <= Len(bmr) THEN "mount"
    ELSE IF m <= Len(mr) THEN "refs"
    ELSE "put"

\* faulty variant of PushReturn: the error is noted and the step is tried again
PushReturnRetry(err) ==
    /\ pc' = IF err = Nil THEN "push-done" ELSE pc
    /\ retErr' = err

\* putManifestList returns
PushReturn(err) ==
    /\ pc' = "push-done"
    /\ retErr' = err

\* faulty variant of TooManyArgs: two arguments are let through
TooManyArgsOverTwo(numArgs) == numArgs > 2

\* line 120: numArgs > 1
TooManyArgs(numArgs) == numArgs > 1

\* faulty variant of NoneListed: an empty listing is let through
NoneListedNever(files) == FALSE

\* line 135: len(manifests) == 0
NoneListed(files) == Len(files) = 0

\* getListFilenames can fail on a transaction directory that exists; one
\* that does not exist is listed as empty
CanFailToList(st, txn) == IsDirectory(st, makeFilesafeName(txn))

\* lines 119-138: the command line is examined, the target reference built
\* and the transaction directory listed; `listFails` is a directory that
\* cannot be read, `files` its listing
PushStart(argv, fl, pg, listFails, files) ==
    /\ pc = "idle"
    /\ args' = argv
    /\ purge' = pg
    /\ file' = fl
    /\ IF TooManyArgs(Len(argv))
          THEN /\ PushReturn(ErrString("more than one argument provided to 'manifest push'", <<>>))
               /\ UNCHANGED <<fullTargetRef, manifests, listed>>
       ELSE IF Len(argv) = 0 /\ fl = <<>>
          THEN /\ PushReturn(ErrString("please push using a yaml file or a list created using 'manifest create.'", <<>>))
               /\ UNCHANGED <<fullTargetRef, manifests, listed>>
       ELSE LET refs == constructTargetRefs(argv, fl)
            IN  IF refs.err # Nil
                   THEN /\ PushReturn(refs.err)
                        /\ UNCHANGED <<fullTargetRef, manifests, listed>>
                ELSE /\ listed' = (fl = <<>>)
                     /\ IF /\ fl = <<>>
                           /\ listFails
                           /\ CanFailToList(store, RefString(refs.fullTargetRef))
                           THEN /\ PushReturn(MkErr("readdir", "", <<>>, <<>>))
                                /\ UNCHANGED <<fullTargetRef, manifests>>
                        ELSE IF fl = <<>> /\ NoneListed(files)
                           THEN /\ PushReturn(ErrString("not found", RefString(refs.fullTargetRef)))
                                /\ UNCHANGED <<fullTargetRef, manifests>>
                        ELSE /\ fullTargetRef' = refs.fullTargetRef
                             /\ manifests' = IF fl = <<>> THEN files ELSE <<>>
                             /\ pc' = "setup"
                             /\ retErr' = retErr
    /\ UNCHANGED <<store, store0, targetRepoName, targetEndpoint, manifestList,
                   blobMountRequests, manifestRequests, bi, mi, requests>>
    /\ UNCHANGED <<fetchVars, inspectVars, selectVars>>

\* the listings getListFilenames can give putManifestList
PushListings(st, argv, fl) ==
    IF Len(argv) > 1 \/ (Len(argv) = 0 /\ fl = <<>>) \/ fl # <<>>
       THEN { <<>> }
    ELSE IF constructTargetRefs(argv, fl).err # Nil
       THEN { <<>> }
    ELSE getListFilenames(st, RefString(constructTargetRefs(argv, fl).fullTargetRef))

\* lines 139-150: registry.ParseRepositoryInfo and setupRepo, either of
\* which can fail (`fail`: "repo", "setup"); `eps` is what
\* LookupPushEndpoints returns and `secure` the index's Secure flag
SetupRepo(eps, secure, fail) ==
    /\ pc = "setup"
    /\ IF fail = "repo"
          THEN /\ PushReturn(Wrap(MkErr("repository", "", <<>>, <<>>),
                                  "error parsing repository name for manifest list"))
               /\ UNCHANGED <<targetEndpoint, targetRepoName>>
       ELSE IF fail = "setup"
          THEN /\ PushReturn(Wrap(ErrLookup,
                                  "error setting up repository endpoint and references"))
               /\ UNCHANGED <<targetEndpoint, targetRepoName>>
       ELSE /\ targetEndpoint' = selectPushEndpoint(eps, secure)
            /\ targetRepoName' = setupRepo(targetEndpoint', fullTargetRef)
            /\ pc' = "build"
            /\ retErr' = retErr
    /\ UNCHANGED <<store, store0, args, listed, purge, file, fullTargetRef, manifests, manifestList,
                   blobMountRequests, manifestRequests, bi, mi, requests>>
    /\ UNCHANGED <<fetchVars, inspectVars, selectVars>>

\* lines 156-222: the list and the requests are built from the staged
\* files and the HTTP client is set up; `brokenIdx` is the position of a
\* file that does not unmarshal (0: none), `pingFails` a registry that does
\* not answer the ping of getHTTPClient, `left` the staging store after a
\* rejected record
BuildListsLeaving(brokenIdx, pingFails, left) ==
    /\ pc = "build"
    /\ LET broken == IF brokenIdx \in DOMAIN manifests THEN {manifests[brokenIdx]} ELSE {}
           plan   == IF file = <<>>
                        THEN BuildPlan(manifests, fullTargetRef, targetRepoName, broken, NoPlan)
                        ELSE NoPlan
       IN  IF plan.err # Nil
              THEN /\ PushReturn(plan.err)
                   /\ store' = left
                   /\ UNCHANGED <<manifestList, blobMountRequests, manifestRequests, bi, mi>>
           ELSE IF pingFails
              THEN /\ PushReturn(Wrap(Wrap(MkErr("ping", "", <<>>, <<>>),
                                           "ping of V2 registry failed"),
                                      "failed to setup HTTP client to repository"))
                   /\ store' = store
                   /\ UNCHANGED <<manifestList, blobMountRequests, manifestRequests, bi, mi>>
           ELSE /\ manifestList' = plan.manifestList
                /\ blobMountRequests' = plan.bmr
                /\ manifestRequests' = plan.mr
                /\ bi' = 1
                /\ mi' = 1
                /\ pc' = PushPC(1, 1, plan.bmr, plan.mr)
                /\ retErr' = retErr
                /\ store' = store
    /\ UNCHANGED <<store0, args, listed, purge, file, fullTargetRef, targetRepoName, targetEndpoint,
                   manifests, requests>>
    /\ UNCHANGED <<fetchVars, inspectVars, selectVars>>

\* faulty variant of BuildLists: a push that is rejected clears the files
\* of its transaction
BuildListsClearing(brokenIdx, pingFails) ==
    BuildListsLeaving(brokenIdx, pingFails,
                      store \ { manifests[i] : i \in DOMAIN manifests })

\* lines 156-222: a failure leaves the staging store alone
BuildLists(brokenIdx, pingFails) == BuildListsLeaving(brokenIdx, pingFails, store)

\* one request to the registry as it went out and came back; status 0
\* stands for a transport error (no response)
Req(k, to, from, dg, status, hdr) ==
    [kind |-> k, to |-> to, from |-> from, digest |-> dg, status |-> status, header |-> hdr,
     reference |-> "", body |-> "", ctype |-> ""]

\* a PUT of a manifest: `url` is what BuildManifestURL made, `body` the
\* bytes sent and `ctype` the Content-Type header
PutReq(k, url, from, dg, status, hdr, body, ctype) ==
    [Req(k, url.name, from, dg, status, hdr) EXCEPT
        !.reference = url.reference, !.body = body, !.ctype = ctype]

ErrTransport == MkErr("transport", "", <<>>, <<>>)

\* the answers of the registry to a blob mount, a manifest PUT and the
\* PUT of the list
MountStatuses == {0, 200, StatusCreated, 202, 307, 404}
PutStatuses == {0, 199, 200, StatusCreated, 307, 399, 400, 500}

\* the Docker-Content-Digest header of an answer to the PUT of `dg`
DigestHeaders(dg) == {dg, "sha256:zz", ""}

\* lines 572-593: mountBlobs posts the next blob mount
MountBlob ==
    /\ pc = "mount"
    /\ bi \in DOMAIN blobMountRequests
    /\ LET blob == blobMountRequests[bi]
       IN  \E status \in MountStatuses :
             /\ requests' = Append(requests,
                               Req("mount", RefPath(fullTargetRef), blob.FromRepo,
                                   blob.Digest, status, ""))
             /\ IF status = 0
                   THEN /\ PushReturn(Wrap(Wrap(ErrTransport, "v2 registry POST of blob mount failed"),
                                           "couldn't mount blobs for cross-repository push"))
                        /\ bi' = bi
                ELSE IF status # StatusCreated
                   THEN /\ PushReturn(Wrap(ErrString("blob mount failed", <<blob.Digest>>),
                                           "couldn't mount blobs for cross-repository push"))
                        /\ bi' = bi
                ELSE /\ bi' = bi + 1
                     /\ pc' = PushPC(bi + 1, mi, blobMountRequests, manifestRequests)
                     /\ retErr' = retErr
    /\ UNCHANGED <<store, store0, args, listed, purge, file, fullTargetRef, targetRepoName, targetEndpoint,
                   manifests, manifestList, blobMountRequests, manifestRequests, mi>>
    /\ UNCHANGED <<fetchVars, inspectVars, selectVars>>

\* faulty variant of DigestDiffers: every digest is accepted
DigestDiffersNever(result, expected) == FALSE

\* line 562: the digest of the answer against the digest of the request
DigestDiffers(result, expected) == result # expected

\* lines 526-566: pushReferences puts the next referenced manifest
PushReference ==
    /\ pc = "refs"
    /\ mi \in DOMAIN manifestRequests
    /\ LET manifest == manifestRequests[mi]
           Fail(e)  == /\ PushReturn(Wrap(e, "couldn't push manifests referenced in our manifest list"))
                       /\ mi' = mi
       IN  IF ~DigestValid(manifest.Digest)
              THEN /\ Fail(Wrap(ErrString("invalid digest", <<manifest.Digest>>),
                                "error parsing manifest digest for referenced manifest"))
                   /\ requests' = requests
           ELSE \E status \in PutStatuses, hdr \in DigestHeaders(manifest.Digest) :
                  /\ status = 0 => hdr = ""
                  /\ requests' = Append(requests,
                                    PutReq("ref",
                                           BuildManifestURL(WithDigest(BareRefOf(fullTargetRef),
                                                                       manifest.Digest)),
                                           manifest.Name, manifest.Digest, status, hdr,
                                           manifest.JSONBytes, manifest.MediaType))
                  /\ IF status = 0
                        THEN Fail(Wrap(ErrTransport, "PUT of manifest reference failed"))
                     ELSE IF ~statusSuccess(status)
                        THEN Fail(ErrString("referenced manifest push unsuccessful", <<>>))
                     ELSE IF ~DigestValid(hdr)
                        THEN Fail(Wrap(ErrString("invalid digest", <<hdr>>),
                                       "couldn't parse pushed manifest digest response"))
                     ELSE IF DigestDiffers(hdr, manifest.Digest)
                        THEN Fail(ErrString("pushed referenced manifest received a different digest",
                                            <<manifest.Digest, manifest.Digest>>))
                     ELSE /\ mi' = mi + 1
                          /\ pc' = PushPC(bi, mi + 1, blobMountRequests, manifestRequests)
                          /\ retErr' = retErr
    /\ UNCHANGED <<store, store0, args, listed, purge, file, fullTargetRef, targetRepoName, targetEndpoint,
                   manifests, manifestList, blobMountRequests, manifestRequests, bi>>
    /\ UNCHANGED <<fetchVars, inspectVars, selectVars>>

\* os.RemoveAll of a path of the base directory: the file of that name, or
\* the directory of that name and all it holds
Removable(st, k) ==
    { e \in st : \/ e.dir = k.dir /\ e.file = k.file
                 \/ k.dir = <<>> /\ e.dir = k.file }

\* the Docker-Content-Digest header of an answer to the PUT of the list: the
\* digest of the list, another digest, none, or a string that is no digest
ListDigestHeaders == DigestHeaders("sha256:l1") \cup {"notadigest"}

\* faulty variant of DigestParses: the header is not examined
DigestParsesAlways(hdr) == TRUE

\* line 246: digest.Parse of the header
DigestParses(hdr) == DigestValid(hdr)

\* faulty variant of PurgeErr: entries left behind fail the push
PurgeErrFatal(left) ==
    IF left = {} THEN Nil
    ELSE MkErr("errorString", "unable to clean up manifest files", <<>>, <<>>)

\* lines 253-259: the error returned after the purge, `left` being what
\* RemoveAll left behind; its failure is logged and is not fatal
PurgeErr(left) == Nil

\* lines 238-261: the PUT of the manifest list, and the purge.  A RemoveAll
\* that fails may have removed any part of the directory.
PutList ==
    /\ pc = "put"
    /\ \E status \in PutStatuses, hdr \in ListDigestHeaders :
          /\ status = 0 => hdr = ""
          /\ requests' = Append(requests,
                            PutReq("list", BuildManifestURL(TargetRefOf(fullTargetRef)),
                                   <<>>, "", status, hdr,
                                   manifestList, MediaTypeManifestList))
          /\ IF status = 0
                THEN /\ PushReturn(Wrap(ErrTransport, "v2 registry PUT of manifest list failed"))
                     /\ store' = store
             ELSE IF statusSuccess(status)
                THEN IF ~DigestParses(hdr)
                        THEN /\ PushReturn(ErrString("invalid digest", <<hdr>>))
                             /\ store' = store
                        ELSE IF purge
                                THEN LET targetFilename ==
                                           mfToFilename(RefString(fullTargetRef), <<>>)
                                     IN  \E removed \in SUBSET Removable(store, targetFilename) :
                                            /\ store' = store \ removed
                                            /\ PushReturn(PurgeErr(
                                                  Removable(store, targetFilename) \ removed))
                                ELSE /\ store' = store
                                     /\ PushReturn(Nil)
             ELSE /\ PushReturn(ErrString("registry push unsuccessful", <<>>))
                  /\ store' = store
    /\ UNCHANGED <<store0, args, listed, purge, file, fullTargetRef, targetRepoName, targetEndpoint, manifests,
                   manifestList, blobMountRequests, manifestRequests, bi, mi>>
    /\ UNCHANGED <<fetchVars, inspectVars, selectVars>>

\* putManifestList has returned and the process ends; the store stays on disk
PushExit ==
    /\ pc = "push-done"
    /\ pc' = "idle"
    /\ retErr' = Nil
    /\ store0' = store
    /\ PushReset
    /\ UNCHANGED <<store, fetchVars, inspectVars, selectVars>>

NextPush ==
    \/ \E argv \in PushArgs, fl \in PushFiles, pg \in BOOLEAN, listFails \in BOOLEAN :
          \E files \in PushListings(store, argv, fl) :
             PushStart(argv, fl, pg, listFails, files)
    \/ \E eps \in PushEndpointLists, secure \in BOOLEAN, fail \in {"none", "repo", "setup"} :
          SetupRepo(eps, secure, fail)
    \/ \E brokenIdx \in 0..Len(manifests), pingFails \in BOOLEAN :
          BuildLists(brokenIdx, pingFails)
    \/ MountBlob
    \/ PushReference
    \/ PutList
    \/ PushExit

\* the push command: putManifestList run to its return, any number of times
SpecPush == InitPush /\ [][NextPush]_vars

(***************************************************************************)
(* Reference normalisation on its own: the names a user can give are       *)
(* normalised as getImageData (fetch.go 444-461) and constructTargetRefs   *)
(* (push.go 282-288) do, and the normalised name, a string, is given       *)
(* again.                                                                  *)
(***************************************************************************)
\* the names tried: with and without domain, official and other
\* repositories, with and without tag and digest, and names that do not
\* parse
NormalizeInputs ==
    { MkRef(d, p, t, g) :
        d \in {"", "docker.io", "reg"},
        p \in { <<>>, <<"app">>, <<"library", "app">>, <<"org", "app">> },
        t \in {"", "v1", "latest"},
        g \in {"", "sha256:m1"} }

InitNormalize ==
    /\ pc = "idle"
    /\ store = {}
    /\ store0 = {}
    /\ retErr = Nil
    /\ FetchIdle
    /\ PushIdle
    /\ InspectIdle
    /\ SelectIdle

\* fetch.go 444-461 and push.go 282-288 on the same name
NormalizeName(nm) ==
    /\ pc = "idle"
    /\ name' = nm
    /\ IF ~ParseOK(nm)
          THEN /\ pc' = "done"
               /\ retErr' = ErrParse(RefString(nm))
               /\ UNCHANGED <<namedRef, normalName, fullTargetRef>>
          ELSE /\ pc' = "normalized"
               /\ retErr' = Nil
               /\ namedRef' = NamedRefOf(nm)
               /\ normalName' = RefString(NamedRefOf(nm))
               /\ fullTargetRef' = constructTargetRefs(<<nm>>, <<>>).fullTargetRef
    /\ UNCHANGED <<store, store0, transaction, fetchOnly, transactionID, endpoints, idx,
                   lastErr, discardNoSupportErrors, confirmedTLSRegistries, foundImages,
                   lookups, events, args, listed, purge, file, targetRepoName, targetEndpoint, manifests,
                   manifestList, blobMountRequests, manifestRequests, bi, mi, requests>>
    /\ UNCHANGED <<inspectVars, selectVars>>

\* the normalised name is the name of a later call
NormalizeAgain ==
    /\ pc = "normalized"
    /\ pc' = "renormalized"
    /\ namedRef' = NamedRefOf(ParseString(normalName))
    /\ fullTargetRef' = constructTargetRefs(<<ParseString(normalName)>>, <<>>).fullTargetRef
    /\ UNCHANGED <<store, store0, retErr, name, normalName, transaction, fetchOnly,
                   transactionID, endpoints, idx, lastErr, discardNoSupportErrors,
                   confirmedTLSRegistries, foundImages, lookups, events, args, listed, purge, file,
                   targetRepoName, targetEndpoint, manifests, manifestList,
                   blobMountRequests, manifestRequests, bi, mi, requests>>
    /\ UNCHANGED <<inspectVars, selectVars>>

NormalizeExit ==
    /\ pc \in {"renormalized", "done"}
    /\ pc' = "idle"
    /\ retErr' = Nil
    /\ FetchReset
    /\ PushReset
    /\ UNCHANGED <<store, store0, inspectVars, selectVars>>

NextNormalize ==
    \/ \E nm \in NormalizeInputs : NormalizeName(nm)
    \/ NormalizeAgain
    \/ NormalizeExit

SpecNormalize == InitNormalize /\ [][NextNormalize]_vars

(***************************************************************************)
(* makeImgManifestInspect on its own (fetch.go 588-628): the record made   *)
(* from what a registry served for one manifest.                           *)
(***************************************************************************)
\* faulty variant of makeImgManifestInspect: the digest served is copied
makeImgManifestInspectCopy(nm, info, mt) ==
    IF mt = MediaTypeManifestList
       THEN [RefName |-> NoRef, Digest |-> info.digest, MediaType |-> mt, Size |-> 0,
             Architecture |-> "", OS |-> "", References |-> <<>>, CanonicalJSON |-> ""]
    ELSE [RefName |-> nm, Digest |-> info.digest, MediaType |-> mt, Size |-> info.length,
          Architecture |-> info.platform.Architecture, OS |-> info.platform.OS,
          References |-> info.blobDigests, CanonicalJSON |-> info.jsonBytes]

\* lines 588-628: the digest is taken over only when it validates; for a
\* manifest list the record holds the media type and the digest alone
makeImgManifestInspect(nm, info, mt) ==
    LET digest == IF DigestValid(info.digest) THEN info.digest ELSE ""
    IN  IF mt = MediaTypeManifestList
           THEN [RefName |-> NoRef, Digest |-> digest, MediaType |-> mt, Size |-> 0,
                 Architecture |-> "", OS |-> "", References |-> <<>>, CanonicalJSON |-> ""]
        ELSE [RefName |-> nm, Digest |-> digest, MediaType |-> mt, Size |-> info.length,
              Architecture |-> info.platform.Architecture, OS |-> info.platform.OS,
              References |-> info.blobDigests, CanonicalJSON |-> info.jsonBytes]

\* what a registry can serve: digests that validate, no digest, and strings
\* that are no digest
ServedDigests == {"sha256:m1", "sha256:m2", "", "bogus", "sha256:"}

ServedInfos ==
    { MkInfo(d, a, o, b, "j1") :
        d \in ServedDigests, a \in {"amd64", "arm64"}, o \in {"linux", "windows"},
        b \in { <<"sha256:b1">>, <<"sha256:b1", "notadigest">> } }

ServedMediaTypes == {MediaTypeManifest, MediaTypeManifestList}

InspectNames ==
    { MkRef("docker.io", <<"library", "app">>, "latest", ""),
      MkRef("reg", <<"org", "img">>, "v1", "") }

InitInspect ==
    /\ pc = "idle"
    /\ store = {}
    /\ store0 = {}
    /\ retErr = Nil
    /\ FetchIdle
    /\ PushIdle
    /\ InspectIdle
    /\ SelectIdle

\* a fetcher makes the record of a manifest it was served
MakeImgManifestInspect(nm, info, mt) ==
    /\ pc = "idle"
    /\ pc' = "made"
    /\ mfInfo' = info
    /\ mediaType' = mt
    /\ foundImages' = << makeImgManifestInspect(nm, info, mt) >>
    /\ UNCHANGED <<store, store0, retErr, name, transaction, fetchOnly, namedRef, normalName,
                   transactionID, endpoints, idx, lastErr, discardNoSupportErrors,
                   confirmedTLSRegistries, lookups, events, pushVars, selectVars>>

InspectExit ==
    /\ pc = "made"
    /\ pc' = "idle"
    /\ FetchReset
    /\ InspectReset
    /\ UNCHANGED <<store, store0, retErr, pushVars, selectVars>>

NextInspect ==
    \/ \E nm \in InspectNames, info \in ServedInfos, mt \in ServedMediaTypes :
          MakeImgManifestInspect(nm, info, mt)
    \/ InspectExit

SpecInspect == InitInspect /\ [][NextInspect]_vars

(***************************************************************************)
(* Properties of makeImgManifestInspect.                                   *)
(***************************************************************************)
\* C27: the record made carries the digest served when that digest
\* validates, and the empty digest otherwise: a string that is no digest is
\* never taken over
C27_RecordDigestValidOrEmpty ==
    pc = "made" =>
       \A i \in DOMAIN foundImages :
          /\ foundImages[i].Digest \in WellFormedDigests \cup {""}
          /\ foundImages[i].Digest =
                IF mfInfo.digest \in WellFormedDigests THEN mfInfo.digest ELSE ""

\* a manifest served with a string that is no digest
C27_Witness ==
    /\ pc = "made"
    /\ mfInfo.digest = "bogus"
    /\ mediaType = MediaTypeManifest
    /\ Len(foundImages) = 1
    /\ foundImages[1].Digest = ""
    /\ foundImages[1].Architecture = "arm64"

\* a manifest list served with a digest that validates
C27_WitnessList ==
    /\ pc = "made"
    /\ mfInfo.digest = "sha256:m2"
    /\ mediaType = MediaTypeManifestList
    /\ foundImages[1].Digest = "sha256:m2"

(***************************************************************************)
(* selectPushEndpoint on its own (push.go 453-478).                        *)
(***************************************************************************)
\* the endpoint lists given to selectPushEndpoint
SelectEndpointLists == UNION { [1..n -> PushEndpoints] : n \in 1..MaxSelectEndpoints }

InitSelect ==
    /\ pc = "idle"
    /\ store = {}
    /\ store0 = {}
    /\ retErr = Nil
    /\ FetchIdle
    /\ PushIdle
    /\ InspectIdle
    /\ SelectIdle

\* lines 453-478: `fails` is loadLocalInsecureRegistries or
\* LookupPushEndpoints returning an error
SelectPushEndpoint(eps, secure, fails) ==
    /\ pc = "idle"
    /\ pc' = "selected"
    /\ pushEndpoints' = IF fails THEN <<>> ELSE eps
    /\ indexSecure' = secure
    /\ retErr' = IF fails THEN ErrLookup ELSE Nil
    /\ targetEndpoint' = IF fails THEN NoEndpoint ELSE selectPushEndpoint(eps, secure)
    /\ UNCHANGED <<store, store0, args, listed, purge, file, fullTargetRef, targetRepoName,
                   manifests, manifestList, blobMountRequests, manifestRequests, bi, mi,
                   requests, fetchVars, inspectVars>>

SelectExit ==
    /\ pc = "selected"
    /\ pc' = "idle"
    /\ retErr' = Nil
    /\ targetEndpoint' = NoEndpoint
    /\ SelectReset
    /\ UNCHANGED <<store, store0, args, listed, purge, file, fullTargetRef, targetRepoName,
                   manifests, manifestList, blobMountRequests, manifestRequests, bi, mi,
                   requests, fetchVars, inspectVars>>

NextSelect ==
    \/ \E eps \in SelectEndpointLists, secure \in BOOLEAN, fails \in BOOLEAN :
          SelectPushEndpoint(eps, secure, fails)
    \/ SelectExit

SpecSelect == InitSelect /\ [][NextSelect]_vars

(***************************************************************************)
(* Properties of selectPushEndpoint.                                       *)
(***************************************************************************)
\* selectPushEndpoint has returned an endpoint
Selected == pc = "selected" /\ retErr = Nil

\* the positions of the http endpoints of the list
HttpAt == { i \in DOMAIN pushEndpoints : pushEndpoints[i].Scheme = "http" }

\* C37: for a secure index the endpoint returned is the first of the list;
\* another than the first is returned only for an insecure index and is
\* then an http endpoint; for an insecure index with an http endpoint in
\* the list the one returned is the last http endpoint of the list
C37_EndpointSelection ==
    Selected =>
       /\ indexSecure => targetEndpoint = pushEndpoints[1]
       /\ targetEndpoint # pushEndpoints[1] =>
             ~indexSecure /\ targetEndpoint.Scheme = "http"
       /\ (~indexSecure /\ HttpAt = {}) => targetEndpoint = pushEndpoints[1]
       /\ (~indexSecure /\ HttpAt # {}) =>
             \E i \in HttpAt :
                /\ \A k \in HttpAt : k <= i
                /\ targetEndpoint = pushEndpoints[i]

\* an insecure index: of two http endpoints after an https one the last
\* is returned
C37_Witness ==
    /\ Selected
    /\ ~indexSecure
    /\ Len(pushEndpoints) = 3
    /\ pushEndpoints[1].Scheme = "https"
    /\ pushEndpoints[2].Scheme = "http"
    /\ pushEndpoints[3].Scheme = "http"
    /\ pushEndpoints[2] # pushEndpoints[3]
    /\ targetEndpoint = pushEndpoints[3]

\* a secure index: the first endpoint is returned although an http
\* endpoint follows
C37_WitnessSecure ==
    /\ Selected
    /\ indexSecure
    /\ Len(pushEndpoints) = 2
    /\ pushEndpoints[1].Scheme = "https"
    /\ pushEndpoints[2].Scheme = "http"
    /\ targetEndpoint = pushEndpoints[1]

(***************************************************************************)
(* Properties of reference normalisation.                                  *)
(***************************************************************************)
\* C24: normalisation gives a reference without tag and digest the default
\* tag and leaves the tag and the digest of every other reference as they
\* are, in getImageData and constructTargetRefs alike; the normalised
\* name, normalised again, is the same reference
C24_NormalizeIdempotent ==
    pc \in {"normalized", "renormalized"} =>
       /\ IF name.tag = "" /\ name.digest = ""
             THEN namedRef.tag = "latest" /\ namedRef.digest = ""
             ELSE namedRef.tag = name.tag /\ namedRef.digest = name.digest
       /\ fullTargetRef = namedRef
       /\ RefString(namedRef) = normalName

\* a bare name that got the default tag and went through a second time
C24_Witness ==
    /\ pc = "renormalized"
    /\ name = MkRef("", <<"app">>, "", "")
    /\ namedRef = MkRef("docker.io", <<"library", "app">>, "latest", "")

\* a name with a tag and a digest that went through a second time
C24_WitnessTagged ==
    /\ pc = "renormalized"
    /\ name.tag = "v1" /\ name.digest = "sha256:m1"
    /\ namedRef.tag = "v1" /\ namedRef.digest = "sha256:m1"

(***************************************************************************)
(* Properties of putManifestList.                                          *)
(***************************************************************************)
\* an answer with a status of the 2xx or 3xx class
SuccessStatus(r) == r.status >= 200 /\ r.status <= 399

\* C1: every blob mount goes out before any referenced manifest, and the
\* list goes out only when each blob mount and each referenced manifest
\* planned has gone out, in order, and was answered with success
C1_PushOrder ==
    /\ \A i, j \in DOMAIN requests :
          (i < j /\ requests[i].kind = "ref") => requests[j].kind # "mount"
    /\ \A i \in DOMAIN requests :
          requests[i].kind = "list" =>
             LET nb == Len(blobMountRequests)
                 nm == Len(manifestRequests)
             IN  /\ i = nb + nm + 1
                 /\ \A k \in 1..nb :
                       /\ requests[k].kind = "mount"
                       /\ requests[k].from = blobMountRequests[k].FromRepo
                       /\ requests[k].digest = blobMountRequests[k].Digest
                       /\ requests[k].status = 201
                 /\ \A k \in 1..nm :
                       /\ requests[nb + k].kind = "ref"
                       /\ requests[nb + k].digest = manifestRequests[k].Digest
                       /\ SuccessStatus(requests[nb + k])
                       /\ requests[nb + k].header = manifestRequests[k].Digest

C1_Witness ==
    /\ Len(blobMountRequests) >= 2
    /\ Len(manifestRequests) >= 2
    /\ Len(requests) = Len(blobMountRequests) + Len(manifestRequests) + 1
    /\ requests[Len(requests)].kind = "list"

\* C2: when the answer to the PUT of a referenced manifest carries another
\* digest than the one put, the push ends there with the error of
\* pushReferences and the list is not put
C2_DigestMismatch ==
    \A i \in DOMAIN requests :
        ( /\ requests[i].kind = "ref"
          /\ SuccessStatus(requests[i])
          /\ requests[i].header # requests[i].digest )
        => /\ i = Len(requests)
           /\ pc = "push-done"
           /\ retErr.type = "wrapped"
           /\ retErr.code = "couldn't push manifests referenced in our manifest list"
           /\ \A k \in DOMAIN requests : requests[k].kind # "list"

C2_Witness ==
    \E i \in DOMAIN requests :
        /\ i > 1
        /\ requests[i - 1].kind = "ref"
        /\ requests[i].kind = "ref"
        /\ SuccessStatus(requests[i])
        /\ requests[i].header = "sha256:zz"
        /\ requests[i].digest # "sha256:zz"
        /\ pc = "push-done"
        /\ retErr.inner[1].code = "pushed referenced manifest received a different digest"

\* C3: the store changes only by a purge that follows a successful PUT of
\* the list, and then only loses entries; after a PUT of the list that
\* failed the store is what it was when the push began
C3_PurgeAfterSuccess ==
    /\ store # store0 =>
          /\ purge
          /\ pc = "push-done"
          /\ retErr = Nil
          /\ requests # <<>>
          /\ requests[Len(requests)].kind = "list"
          /\ SuccessStatus(requests[Len(requests)])
          /\ store \subseteq store0
    /\ \A i \in DOMAIN requests :
          (requests[i].kind = "list" /\ ~SuccessStatus(requests[i]))
          => /\ store = store0
             /\ pc = "push-done"
             /\ retErr # Nil

C3_Witness ==
    /\ purge
    /\ pc = "push-done"
    /\ retErr = Nil
    /\ Cardinality(store0) = MaxRecords + 1
    /\ store = {UnrelatedEntry}
    /\ requests[Len(requests)].kind = "list"

C3_WitnessFailedPut ==
    /\ purge
    /\ pc = "push-done"
    /\ Cardinality(store0) = MaxRecords + 1
    /\ store = store0
    /\ requests # <<>>
    /\ requests[Len(requests)].kind = "list"
    /\ requests[Len(requests)].status = 500

\* the requests of the push are planned (BuildLists went through)
PlanBuilt == bi >= 1

\* the staged record read at position i, and the repository it names
RecordAt(i) == manifests[i].rec
RecordRepo(i) == ParseNormalizedNamed(RecordAt(i).RefName).path

\* the record at position i is of another repository than the target
OtherRepo(i) == RecordRepo(i) # fullTargetRef.path

\* C12: for every staged record of another repository than the target the
\* plan holds one blob mount from the record's repository per blob the
\* record references, and one referenced-manifest push with the record's
\* digest, canonical bytes and media type
C12_CrossRepoPlan ==
    PlanBuilt =>
      \A i \in DOMAIN manifests :
        OtherRepo(i) =>
          /\ \A d \in { RecordAt(i).References[m] : m \in DOMAIN RecordAt(i).References } :
                Cardinality({ k \in DOMAIN blobMountRequests :
                                 /\ blobMountRequests[k].FromRepo = JoinPath(RecordRepo(i))
                                 /\ blobMountRequests[k].Digest = d })
                  = Cardinality({ jm \in (DOMAIN manifests) \X (1..Cardinality(WellFormedDigests)) :
                                 /\ RecordRepo(jm[1]) = RecordRepo(i)
                                 /\ jm[2] \in DOMAIN RecordAt(jm[1]).References
                                 /\ RecordAt(jm[1]).References[jm[2]] = d })
          /\ Cardinality({ k \in DOMAIN manifestRequests :
                              /\ manifestRequests[k].Name = JoinPath(RecordRepo(i))
                              /\ manifestRequests[k].Digest = RecordAt(i).Digest })
                = 1
          /\ \A k \in DOMAIN manifestRequests :
                (manifestRequests[k].Digest = RecordAt(i).Digest)
                => /\ manifestRequests[k].JSONBytes = RecordAt(i).CanonicalJSON
                   /\ manifestRequests[k].MediaType = RecordAt(i).MediaType

C12_Witness ==
    /\ PlanBuilt
    /\ targetEndpoint.TrimHostname
    /\ Len(manifests) = 2
    /\ \E i, j \in DOMAIN manifests :
          /\ ~OtherRepo(i)
          /\ OtherRepo(j)
          /\ Len(RecordAt(j).References) = 2
    /\ Len(blobMountRequests) = 2
    /\ Len(manifestRequests) = 1

\* C13 (as the specification states it; putManifestList keeps it only for
\* endpoints that trim the hostname): a staged record of the target
\* repository adds no blob mount and no referenced-manifest push to the
\* plan, and when every record is of the target repository the only request
\* is the PUT of the list, with one descriptor per record
C13_SameRepoNoRequests ==
    PlanBuilt =>
      /\ \A i \in DOMAIN manifests :
            ~OtherRepo(i) =>
               /\ \A k \in DOMAIN blobMountRequests :
                     blobMountRequests[k].FromRepo # JoinPath(RecordRepo(i))
               /\ \A k \in DOMAIN manifestRequests :
                     manifestRequests[k].Digest # RecordAt(i).Digest
      /\ (\A i \in DOMAIN manifests : ~OtherRepo(i)) =>
            /\ blobMountRequests = <<>>
            /\ manifestRequests = <<>>
            /\ Len(requests) <= 1
            /\ \A k \in DOMAIN requests : requests[k].kind = "list"
            /\ Len(manifestList) = Len(manifests)

\* the record at position i names another registry than the target
ForeignAt(i) == ParseNormalizedNamed(RecordAt(i).RefName).domain # fullTargetRef.domain

\* the record at position i lacks its architecture or OS, or carries a
\* digest that is not well formed
NoPlatformAt(i) == RecordAt(i).Architecture = "" \/ RecordAt(i).OS = ""
BadDigestAt(i) == RecordAt(i).Digest \notin WellFormedDigests

CrossRegistryMsg ==
    "cannot use source images from a different registry than the target image"
NoPlatformMsg == "malformed manifest object. cannot push to registry"

\* the push was given up before the staged records were gone through:
\* the repository or its endpoint could not be set up, or a file could not
\* be read
GaveUpEarly == retErr.type \in {"wrapped", "unmarshal"} /\ retErr.code # "Digest parse of image failed"

\* no request was planned or made
NothingSent ==
    /\ ~PlanBuilt
    /\ pc \notin {"mount", "refs", "put"}
    /\ requests = <<>>
    /\ manifestList = <<>>
    /\ blobMountRequests = <<>>
    /\ manifestRequests = <<>>

C15_NoPlatformRejected ==
    (\E i \in DOMAIN manifests : NoPlatformAt(i)) =>
       /\ NothingSent
       /\ pc = "push-done" => retErr # Nil

\* a valid record of another repository is listed first, the record without
\* architecture second, and the push ends with the platform error
C15_Witness ==
    /\ pc = "push-done"
    /\ Len(manifests) = 2
    /\ ~NoPlatformAt(1) /\ ~ForeignAt(1) /\ ~BadDigestAt(1) /\ OtherRepo(1)
    /\ NoPlatformAt(2)
    /\ retErr.code = NoPlatformMsg
    /\ requests = <<>>

\* the record without architecture is listed first
C15_WitnessFirst ==
    /\ pc = "push-done"
    /\ Len(manifests) = 2
    /\ NoPlatformAt(1) /\ ~NoPlatformAt(2)
    /\ retErr.code = NoPlatformMsg

\* request k is a blob mount the registry answered with 202 Accepted: it
\* opened an upload to create the blob instead of mounting it
CreatedNotMounted(k) == requests[k].kind = "mount" /\ requests[k].status = 202

\* the blob of request k is a layer of a staged Windows image
FromWindows(k) ==
    \E i \in DOMAIN manifests :
       /\ RecordAt(i).OS = "windows"
       /\ JoinPath(RecordRepo(i)) = requests[k].from
       /\ \E m \in DOMAIN RecordAt(i).References :
             RecordAt(i).References[m] = requests[k].digest

\* the push ended in an error right after request k
FailedAt(k) == k = Len(requests) /\ pc = "push-done" /\ retErr # Nil

\* C16 (as the specification states it; mountBlobs makes no exception): a
\* blob mount answered "created, not mounted" ends the push in an error
\* unless the blob belongs to a Windows image, for which the push goes on
C16_WindowsMountTolerated ==
    \A k \in DOMAIN requests :
       CreatedNotMounted(k) => (FailedAt(k) <=> ~FromWindows(k))

\* the registry did what request r asked for: a mount answered 201, a PUT
\* answered in the 2xx or 3xx class with a well-formed digest, which for a
\* referenced manifest is the digest that was sent
Succeeded(r) ==
    IF r.kind = "mount" THEN r.status = 201
    ELSE /\ r.status >= 200 /\ r.status <= 399
         /\ r.header \in WellFormedDigests
         /\ r.kind = "ref" => r.header = r.digest

\* the k-th entry of the plan: the blob mounts, the referenced manifests,
\* the list
PlanEntry(k) ==
    LET nb == Len(blobMountRequests)
        nm == Len(manifestRequests)
    IN  IF k <= nb
           THEN [kind |-> "mount", from |-> blobMountRequests[k].FromRepo,
                 digest |-> blobMountRequests[k].Digest]
        ELSE IF k <= nb + nm
           THEN [kind |-> "ref", from |-> manifestRequests[k - nb].Name,
                 digest |-> manifestRequests[k - nb].Digest]
        ELSE [kind |-> "list", from |-> <<>>, digest |-> ""]

PlanLen == Len(blobMountRequests) + Len(manifestRequests) + 1

\* C17: within one push the first failure ends the run.  A push that ended
\* before its plan was built has issued no request; a request that failed
\* is the last one issued and the push has ended with an error; and the
\* requests issued are the entries of the plan one by one from the first,
\* so that none is issued twice
C17_FirstFailureEnds ==
    /\ (pc = "push-done" /\ ~PlanBuilt) => (retErr # Nil /\ requests = <<>>)
    /\ pc \in {"mount", "refs", "put"} => retErr = Nil
    /\ \A k \in DOMAIN requests : ~Succeeded(requests[k]) => FailedAt(k)
    /\ Len(requests) <= PlanLen
    /\ \A k \in DOMAIN requests :
          /\ requests[k].kind = PlanEntry(k).kind
          /\ requests[k].from = PlanEntry(k).from
          /\ requests[k].digest = PlanEntry(k).digest

\* a push whose second request failed with more of the plan to go
C17_Witness ==
    /\ pc = "push-done"
    /\ retErr # Nil
    /\ Len(requests) = 2
    /\ Succeeded(requests[1])
    /\ ~Succeeded(requests[2])
    /\ PlanLen > 2

\* a push that failed validation
C17_WitnessValidation ==
    /\ pc = "push-done"
    /\ ~PlanBuilt
    /\ retErr.code = NoPlatformMsg
    /\ requests = <<>>

\* the push was rejected for a record without platform, of another
\* registry, or with a malformed digest
ValidationFailed ==
    /\ pc = "push-done"
    /\ retErr.code \in {NoPlatformMsg, CrossRegistryMsg, "Digest parse of image failed"}

\* C18: a push that fails validation leaves the staging store as it was
\* when the push began and has sent nothing to the registry
C18_ValidationNoEffect ==
    ValidationFailed => (store = store0 /\ requests = <<>> /\ NothingSent)

\* a push rejected at its second record, after a valid record of another
\* repository whose blobs and manifest would have been sent
C18_Witness ==
    /\ ValidationFailed
    /\ Len(manifests) = 2
    /\ OtherRepo(1) /\ ~NoPlatformAt(1) /\ ~ForeignAt(1) /\ ~BadDigestAt(1)
    /\ BadDigestAt(2)
    /\ retErr.code = "Digest parse of image failed"
    /\ store = store0

\* descriptor i of the list is made from record i of the listing
DescribesRecord(i) ==
    /\ manifestList[i].Digest = RecordAt(i).Digest
    /\ manifestList[i].Size = RecordAt(i).Size
    /\ manifestList[i].MediaType = RecordAt(i).MediaType
    /\ manifestList[i].Architecture = RecordAt(i).Architecture
    /\ manifestList[i].OS = RecordAt(i).OS

\* the list has been put to the registry
ListSent == requests # <<>> /\ requests[Len(requests)].kind = "list"

\* C20: the list built for the registry, and so the list sent, has one
\* descriptor for each staged record read, in the order of the listing:
\* descriptor i carries the digest, size, media type and platform of
\* record i
C20_DescriptorOrder ==
    PlanBuilt =>
       /\ Len(manifestList) = Len(manifests)
       /\ \A i \in DOMAIN manifestList : DescribesRecord(i)

\* a list of two records sent with the greater digest first
C20_Witness ==
    /\ ListSent
    /\ Len(manifests) = 2
    /\ RecordAt(1).Digest = "sha256:m3"
    /\ RecordAt(2).Digest = "sha256:m1"
    /\ manifestList[1].Digest = "sha256:m3"
    /\ manifestList[2].Digest = "sha256:m1"

\* the same two records sent in the other order
C20_WitnessOtherOrder ==
    /\ ListSent
    /\ Len(manifests) = 2
    /\ manifestList[1].Digest = "sha256:m1"
    /\ manifestList[2].Digest = "sha256:m3"

\* C21: with a record staged whose digest is not well formed, the push
\* ends with an error and no list is built or sent, whatever the other
\* records are
C21_BadDigestAborts ==
    (\E i \in DOMAIN manifests : BadDigestAt(i)) =>
       /\ NothingSent
       /\ pc = "push-done" => retErr # Nil

\* the record with the malformed digest is read first, a valid record of
\* the target repository second; the push ends with the digest error
C21_Witness ==
    /\ pc = "push-done"
    /\ Len(manifests) = 2
    /\ BadDigestAt(1) /\ ~NoPlatformAt(1) /\ ~ForeignAt(1)
    /\ ~BadDigestAt(2) /\ ~NoPlatformAt(2) /\ ~ForeignAt(2) /\ ~OtherRepo(2)
    /\ retErr.code = "Digest parse of image failed"
    /\ retErr.inner[1].arg = <<"bogus">>
    /\ manifestList = <<>>

\* the entry of manifestRequests that request k was made from
PushOf(k) == manifestRequests[k - Len(blobMountRequests)]

\* C23: every push of a referenced manifest is a PUT into the repository
\* of the target, addressed by the digest of the request itself and not by
\* the tag of the target, whose body is the canonical JSON of the staged
\* record with that digest and whose content type is that record's media
\* type
C23_ReferencePutByDigest ==
    \A k \in DOMAIN requests :
       requests[k].kind = "ref" =>
          /\ requests[k].to = JoinPath(fullTargetRef.path)
          /\ requests[k].reference = PushOf(k).Digest
          /\ requests[k].reference \in WellFormedDigests
          /\ requests[k].reference # fullTargetRef.tag
          /\ \E i \in DOMAIN manifests :
                /\ RecordAt(i).Digest = requests[k].reference
                /\ requests[k].body = RecordAt(i).CanonicalJSON
                /\ requests[k].ctype = RecordAt(i).MediaType

\* a referenced manifest accepted by the registry in a push to a tagged
\* target
C23_Witness ==
    /\ fullTargetRef.tag = "latest"
    /\ \E k \in DOMAIN requests :
          /\ requests[k].kind = "ref"
          /\ requests[k].reference = "sha256:m2"
          /\ requests[k].body = "j2"
          /\ Succeeded(requests[k])

\* the command line putManifestList refuses: more than one argument, or no
\* argument and no YAML file
BadCommandLine == Len(args) > 1 \/ (Len(args) = 0 /\ file = <<>>)

C26_WitnessNoArgument ==
    /\ pc = "push-done"
    /\ args = <<>>
    /\ file = <<>>
    /\ retErr # Nil

\* the list was put, and answered with a status of success and a
\* Docker-Content-Digest header that is missing or is no digest
ListAcceptedNoDigest ==
    /\ ListSent
    /\ requests[Len(requests)].status \in 200..399
    /\ requests[Len(requests)].header \notin WellFormedDigests

\* C29: when the registry answers the PUT of the list with a status of
\* success and a Docker-Content-Digest header that is missing or does not
\* parse, putManifestList returns the error of the parse and purges nothing
C29_AcceptedWithoutDigest ==
    ListAcceptedNoDigest =>
       /\ pc = "push-done"
       /\ retErr # Nil
       /\ retErr.code = "invalid digest"
       /\ store = store0

\* purge asked for, entries staged, the header missing
C29_Witness ==
    /\ ListAcceptedNoDigest
    /\ purge
    /\ requests[Len(requests)].status = StatusCreated
    /\ requests[Len(requests)].header = ""
    /\ Removable(store, mfToFilename(RefString(fullTargetRef), <<>>)) # {}

\* purge asked for, entries staged, the header no digest
C29_WitnessUnparseable ==
    /\ ListAcceptedNoDigest
    /\ purge
    /\ requests[Len(requests)].header = "notadigest"
    /\ Len(requests) > 1
    /\ Removable(store, mfToFilename(RefString(fullTargetRef), <<>>)) # {}

\* request k is a PUT, of a referenced manifest or of the list
IsPut(k) == requests[k].kind \in {"ref", "list"}

\* the answer to PUT k carries the digest the client expects
DigestAsExpected(k) ==
    /\ requests[k].header \in WellFormedDigests
    /\ requests[k].kind = "ref" => requests[k].header = requests[k].digest

\* C30: a PUT of a referenced manifest or of the list answered with a status
\* from 200 to 399 and the digest expected is a success: the push goes on
\* after a referenced manifest, and after the list it returns no error and
\* the store changes by the purge alone; a PUT answered with another status
\* ends the push in an error; a blob mount ends the push in an error unless
\* it is answered with 201
C30_SuccessStatuses ==
    \A k \in DOMAIN requests :
       /\ (IsPut(k) /\ requests[k].status \in 200..399 /\ DigestAsExpected(k))
             => /\ ~FailedAt(k)
                /\ requests[k].kind = "list" =>
                      /\ pc = "push-done"
                      /\ retErr = Nil
                      /\ store \subseteq store0
                      /\ ~purge => store = store0
       /\ (IsPut(k) /\ requests[k].status \notin 200..399)
             => FailedAt(k) /\ store = store0
       /\ requests[k].kind = "mount" => (FailedAt(k) <=> requests[k].status # 201)

\* the list answered with a redirect, and the staged entries purged
C30_Witness ==
    /\ ListSent
    /\ requests[Len(requests)].status = 307
    /\ purge
    /\ pc = "push-done"
    /\ retErr = Nil
    /\ store # store0

\* a referenced manifest answered with 399 and the push gone on to the list
C30_WitnessReference ==
    \E k \in DOMAIN requests :
       /\ requests[k].kind = "ref"
       /\ requests[k].status = 399
       /\ k < Len(requests)
       /\ requests[Len(requests)].kind = "list"
       /\ requests[Len(requests)].status = 200
       /\ retErr = Nil

\* a blob mount answered with 200
C30_WitnessMount ==
    /\ Len(requests) = 1
    /\ requests[1].kind = "mount"
    /\ requests[1].status = 200
    /\ pc = "push-done"
    /\ retErr # Nil

\* the list answered with 400, purge asked for and entries staged
C30_WitnessBadRequest ==
    /\ ListSent
    /\ requests[Len(requests)].status = 400
    /\ purge
    /\ retErr # Nil
    /\ Removable(store, mfToFilename(RefString(fullTargetRef), <<>>)) # {}

\* the blob mounts owed to the staged records from position i on: for each
\* record of another repository, and with `sameRepoToo` for each record of
\* the target repository as well, in the order read, one per blob it
\* references, in the order of its references
RECURSIVE MountsOwedFrom(_, _)
MountsOwedFrom(i, sameRepoToo) ==
    IF i > Len(manifests) THEN <<>>
    ELSE (IF OtherRepo(i) \/ sameRepoToo
             THEN [m \in DOMAIN RecordAt(i).References |->
                     <<JoinPath(RecordRepo(i)), RecordAt(i).References[m]>>]
             ELSE <<>>)
         \o MountsOwedFrom(i + 1, sameRepoToo)

\* the blob mounts posted, in the order they were posted
MountsPosted ==
    LET IsMount(r) == r.kind = "mount"
        posted == SelectSeq(requests, IsMount)
    IN  [k \in DOMAIN posted |-> <<posted[k].from, posted[k].digest>>]

\* the push went through: the list was put and no error returned
PushedAll == pc = "push-done" /\ retErr = Nil /\ ListSent

C34_WitnessSameRepo ==
    /\ PushedAll
    /\ ~targetEndpoint.TrimHostname
    /\ Len(manifests) = 2
    /\ ~OtherRepo(1) /\ OtherRepo(2)
    /\ Len(MountsPosted) = 3
    /\ MountsPosted[1][2] = MountsPosted[2][2]

\* the same records read in the other order
C34_WitnessOtherOrder ==
    /\ PushedAll
    /\ Len(manifests) = 2
    /\ OtherRepo(1) /\ OtherRepo(2)
    /\ Len(MountsPosted) = 3
    /\ Len(RecordAt(1).References) = 1
    /\ MountsPosted[1][2] = MountsPosted[3][2]

\* the directory of the transaction of the pushed target
TargetDir == <<"docker.io", "_", "myorg", "_", "app", "-", "latest">>

\* the target was given as the one argument, without YAML file, and nothing
\* was staged for it when the push began
PushOfUnstaged ==
    /\ pc # "idle"
    /\ args = <<PushTarget>>
    /\ file = <<>>
    /\ \A e \in store0 : e.dir # TargetDir

\* C35: a push of a target nothing is staged for, without YAML file, ends
\* with "<target> not found" once the store was listed: no endpoint was
\* selected, nothing was planned or sent, and the store is what it was
C35_UnstagedNotFound ==
    PushOfUnstaged =>
       /\ pc = "push-done"
       /\ retErr # Nil
       /\ retErr.code = "not found"
       /\ retErr.arg = <<"docker.io", "/", "myorg", "/", "app", ":", "latest">>
       /\ listed
       /\ targetEndpoint = NoEndpoint
       /\ targetRepoName = <<>>
       /\ NothingSent
       /\ store = store0

\* the store holds a manifest staged outside the transaction of the target
C35_Witness ==
    /\ PushOfUnstaged
    /\ pc = "push-done"
    /\ retErr.code = "not found"
    /\ store = {UnrelatedEntry}
    /\ ~purge

\* the same with purge asked for
C35_WitnessPurge ==
    /\ PushOfUnstaged
    /\ retErr.code = "not found"
    /\ purge
    /\ store # {}

\* the list was put with purge asked for, and answered with a status of
\* success and a digest that parses
ListAcceptedForPurge ==
    /\ ListSent
    /\ purge
    /\ requests[Len(requests)].status \in 200..399
    /\ requests[Len(requests)].header \in WellFormedDigests

\* what the purge is to remove: the entries of the directory of the target
PurgeOwed == { e \in store0 : e.dir = TargetDir }

\* C36: once the list was put and its digest parsed, a push with purge
\* returns no error whether the staged entries were removed, removed in
\* part or left as they were; nothing else leaves the store
C36_PurgeFailureTolerated ==
    ListAcceptedForPurge =>
       /\ pc = "push-done"
       /\ retErr = Nil
       /\ store \subseteq store0
       /\ store0 \ store \subseteq PurgeOwed

\* the purge removed nothing
C36_Witness ==
    /\ ListAcceptedForPurge
    /\ Cardinality(PurgeOwed) = 2
    /\ store = store0
    /\ retErr = Nil

\* the purge removed one of two entries
C36_WitnessPartial ==
    /\ ListAcceptedForPurge
    /\ Cardinality(PurgeOwed) = 2
    /\ Cardinality(store0 \ store) = 1
    /\ retErr = Nil

(***************************************************************************)
(* Properties of getImageData.                                             *)
(***************************************************************************)
\* the loop called Fetch at the endpoint of event i
Fetched(i) == events[i].kind = "fetch"

\* the endpoint event i is about
EndpointOf(i) == endpoints[events[i].idx]

\* an error that justifies trying the next endpoint
RecoverableErr(e) == e.type = "recoverableError"

\* a "no support" error, bare or as the cause of a recoverable error
NoSupportErr(e) ==
    \/ e.type = "distribution.ErrNoSupport"
    \/ e.type = "recoverableError" /\ e.inner[1].type = "distribution.ErrNoSupport"

\* the normalized form of the name `app`, its file name in the store, and
\* the directory of the transaction `reg/org/list`
AppNormalName == <<"docker.io", "/", "library", "/", "app", ":", "latest">>
AppFile == <<"docker.io", "_", "library", "_", "app", "-", "latest">>
ListDir == <<"reg", "_", "org", "_", "list", "-", "latest">>

NoEndpointsFoundErr ==
    [type |-> "errorString", code |-> "no endpoints found for", inner |-> <<>>,
     arg |-> AppNormalName]

\* the loop ran to the end of the endpoint list
RanOut ==
    /\ pc = "done"
    /\ lookups = 1
    /\ idx >= 1
    /\ Len(events) = Len(endpoints)
    /\ \A i \in DOMAIN events : Fetched(i) => RecoverableErr(events[i].err)

\* C4: once an https endpoint of host H has failed with a recoverable error,
\* every later endpoint of host H that is not https is skipped, not fetched
C4_NoPlaintextAfterTLS ==
    \A i, j \in DOMAIN events :
        ( /\ i < j
          /\ Fetched(i)
          /\ RecoverableErr(events[i].err)
          /\ EndpointOf(i).Scheme = "https"
          /\ EndpointOf(j).Host = EndpointOf(i).Host
          /\ EndpointOf(j).Scheme # "https" )
        => events[j].kind \in {"skip-tls", "skip-v1"}

C4_Witness ==
    \E i, j \in DOMAIN events :
        /\ i < j
        /\ Fetched(i)
        /\ RecoverableErr(events[i].err)
        /\ EndpointOf(i).Scheme = "https"
        /\ EndpointOf(j).Host = EndpointOf(i).Host
        /\ EndpointOf(j).Scheme = "http"
        /\ EndpointOf(j).Version = APIVersion2
        /\ events[j].kind = "skip-tls"

\* C5 (the rule as the specification states it; the later variant of
\* getImageData does not keep it): once a recoverable error that is not "no support" is the
\* last error, a later recoverable "no support" error does not replace it;
\* and while every error seen is a recoverable "no support" error, the last
\* error is the most recent of them
C5_TieBreak ==
    LET rec   == { i \in DOMAIN events : Fetched(i) /\ RecoverableErr(events[i].err) }
        other == { i \in rec : ~NoSupportErr(events[i].err) }
        seen  == { i \in DOMAIN events : events[i].err # Nil }
    IN  /\ other # {} => ~NoSupportErr(lastErr)
        /\ (pc = "loop" /\ seen # {} /\ seen = rec /\ other = {})
              => lastErr = events[CHOOSE i \in rec : \A k \in rec : k <= i].err

\* C6: a fetch error that is not recoverable is returned at once: it is the
\* last thing the loop did, no image is returned and the store is untouched
C6_FatalAborts ==
    \A i \in DOMAIN events :
        (Fetched(i) /\ events[i].err # Nil /\ ~RecoverableErr(events[i].err))
        => /\ i = Len(events)
           /\ pc = "done"
           /\ retErr = events[i].err
           /\ foundImages = <<>>
           /\ store = store0

C6_Witness ==
    \E i, j \in DOMAIN events :
        /\ i < j
        /\ Fetched(i) /\ RecoverableErr(events[i].err)
        /\ Fetched(j) /\ events[j].err # Nil /\ ~RecoverableErr(events[j].err)
        /\ j < Len(endpoints)
        /\ endpoints[j + 1].Version = APIVersion2
        /\ ~fetchOnly
        /\ pc = "done"

\* C7: the loop takes the endpoints in the order of the list, one at a time,
\* and the first successful fetch ends it: its images are returned with no
\* error whatever was recorded before
C7_FirstSuccessWins ==
    /\ \A i \in DOMAIN events : events[i].idx = i
    /\ \A i \in DOMAIN events :
          (Fetched(i) /\ events[i].err = Nil)
          => /\ i = Len(events)
             /\ pc = "done"
             /\ retErr = Nil
             /\ Len(foundImages) > 0
             /\ foundImages = events[i].images

C7_Witness ==
    \E i, j \in DOMAIN events :
        /\ i < j
        /\ Fetched(i) /\ RecoverableErr(events[i].err)
        /\ Fetched(j) /\ events[j].err = Nil
        /\ j < Len(endpoints)
        /\ lastErr # Nil
        /\ pc = "done"

\* C8: when the loop runs out of endpoints it returns no image and the last
\* error it kept, or "no endpoints found for <normalized name>" when no
\* error was recorded
C8_RanOutError ==
    RanOut =>
        /\ foundImages = <<>>
        /\ IF \A i \in DOMAIN events : events[i].err = Nil
              THEN retErr = NoEndpointsFoundErr
              ELSE /\ retErr = lastErr
                   /\ \E i \in DOMAIN events : events[i].err = retErr

C8_Witness ==
    /\ RanOut
    /\ endpoints = <<>>
    /\ retErr = NoEndpointsFoundErr

C8_WitnessLastErr ==
    /\ RanOut
    /\ \E i \in DOMAIN events : Fetched(i) /\ events[i].err = retErr

\* C9: Fetch is never called at a v1 endpoint, and a list of v1 endpoints
\* only ends in "no endpoints found" without any fetch
C9_V1NeverFetched ==
    /\ \A i \in DOMAIN events : Fetched(i) => EndpointOf(i).Version # 1
    /\ ( /\ pc = "done"
         /\ lookups = 1
         /\ idx >= 1
         /\ Len(endpoints) > 0
         /\ \A k \in DOMAIN endpoints : endpoints[k].Version = 1 )
       => /\ \A i \in DOMAIN events : ~Fetched(i)
          /\ retErr = NoEndpointsFoundErr
          /\ foundImages = <<>>

C9_Witness ==
    /\ pc = "done"
    /\ Len(endpoints) = MaxEndpoints
    /\ \A k \in DOMAIN endpoints : endpoints[k].Version = 1
    /\ retErr = NoEndpointsFoundErr

\* the entries staged for `app` when the call was made: the single manifest
\* of (name, transaction), and the manifest list under the name
StagedSingle ==
    { e \in store0 : /\ e.file = AppFile
                     /\ e.dir = IF transaction = <<>> THEN <<>> ELSE ListDir }

StagedList == { e \in store0 : e.dir = AppFile }

C10_WitnessSingle ==
    /\ pc = "done"
    /\ StagedSingle # {}
    /\ transaction # <<>>
    /\ Len(foundImages) = 1

\* getImageData has returned the images of a fetch that succeeded
FetchedOK ==
    /\ pc = "done"
    /\ retErr = Nil
    /\ events # <<>>
    /\ Fetched(Len(events))
    /\ events[Len(events)].err = Nil

\* the image returned first is staged under (normalized name, transaction)
StagedUnderKey ==
    \E e \in store : /\ e.dir = makeFilesafeName(transactionID)
                     /\ e.file = makeFilesafeName(normalName)
                     /\ e.rec = foundImages[1]

\* C19 (as the specification states it; getImageData only logs a failure of
\* storeManifest): when getImageData returns from a successful fetch, the
\* store is unchanged if the call was fetchOnly, and otherwise holds the
\* fetched image under (normalized name, transaction)
C19_StoredOnFetch ==
    FetchedOK => IF fetchOnly THEN store = store0 ELSE StagedUnderKey

\* the error Fetch met at event i, without the recoverableError wrapping
RawErr(i) ==
    IF events[i].err.type = "recoverableError" THEN events[i].err.inner[1]
    ELSE events[i].err

\* the kinds of error the specification lets the loop go on after:
\* unauthorized, manifest or name unknown, and no support for a schema
RecoverableKind(e) ==
    \/ e.type = "errcode.Error" /\ e.code \in {"UNAUTHORIZED", "MANIFEST_UNKNOWN", "NAME_UNKNOWN"}
    \/ e.type = "distribution.ErrNoSupport"

\* C22 (as the specification states it; continueOnError answers true for
\* every error it has no case for): a fetch error that is of none of the
\* recoverable kinds is fatal: it is not wrapped as recoverable, no endpoint
\* is tried after it, and getImageData returns it
C22_OtherErrorsFatal ==
    \A i \in DOMAIN events :
       (Fetched(i) /\ events[i].err # Nil /\ ~RecoverableKind(RawErr(i))) =>
           /\ ~RecoverableErr(events[i].err)
           /\ i = Len(events)
           /\ pc = "done"
           /\ retErr = events[i].err

\* nothing is staged for the name under the transaction of the call, and no
\* manifest list is staged under the name
NothingStaged == StagedSingle = {} /\ StagedList = {}

\* C25: when the staging store holds no entry for (name, transaction), the
\* reads end without result and without error: getImageData goes on to the
\* endpoints of the registry, and an error it returns comes from the
\* endpoint lookup or from the fetch loop
C25_AbsentGoesToNetwork ==
    (pc # "idle" /\ ParsesOK(name, transaction) /\ NothingStaged) =>
       /\ lookups = 1
       /\ pc \in {"loop", "done"}
       /\ (pc = "done" /\ retErr # Nil) =>
             \/ retErr.type = "lookup"
             \/ retErr = NoEndpointsFoundErr
             \/ events # <<>>
       /\ (pc = "done" /\ retErr = Nil) => FetchedOK

\* the name is staged under another transaction than the one of the call,
\* and the call has fetched from an endpoint
C25_Witness ==
    /\ pc = "done"
    /\ ParsesOK(name, transaction)
    /\ NothingStaged
    /\ \E e \in store0 : e.file = AppFile
    /\ FetchedOK
    /\ lookups = 1

\* the store is empty and the loop is under way
C25_WitnessEmpty ==
    /\ pc = "loop"
    /\ store0 = {}
    /\ lookups = 1
    /\ idx = 1

\* the entries a call for (name, transaction) that is no inspect leaves in an
\* empty store when its fetch gave imgs
WrittenBy(imgs) ==
    storeManifest({}, imgs[1], makeFilesafeName(normalName),
                  StoreTransaction(TransactionIDOf(transaction), normalName, imgs))

\* the call has fetched, is no inspect, and has changed the store
WroteRecord == FetchedOK /\ ~fetchOnly /\ store # store0

C28_WitnessList ==
    /\ pc = "done"
    /\ transaction = <<>>
    /\ events = <<>>
    /\ \E imgs \in RegistryImages(namedRef) :
          /\ Len(imgs) > 1
          /\ WrittenBy(imgs) \subseteq store0
          /\ \E i \in DOMAIN foundImages : foundImages[i] = imgs[1]

\* the call that writes
C28_WitnessWrite ==
    /\ WroteRecord
    /\ transaction # <<>>
    /\ WrittenBy(foundImages) \subseteq store

\* a fetch that gave several records has returned, and the call is no inspect
FetchedSeveral == FetchedOK /\ ~fetchOnly /\ Len(foundImages) > 1

\* the entry of the first record returned: in the directory of the
\* transaction, which is the one of the name when no transaction was given
FirstRecordEntry ==
    MkEntry(IF transaction = <<>> THEN AppFile ELSE ListDir, AppFile, foundImages[1])

\* the store after the write of the first record: the entry replaces what
\* was staged under its key
AfterWriteOfFirst ==
    { e \in store0 : ~(e.dir = FirstRecordEntry.dir /\ e.file = FirstRecordEntry.file) }
       \cup {FirstRecordEntry}

C31_WitnessTransaction ==
    /\ FetchedSeveral
    /\ transaction # <<>>
    /\ store # store0
    /\ store = AfterWriteOfFirst
    /\ FirstRecordEntry.dir = ListDir

\* the write failed and nothing was staged
C31_WitnessNotWritten ==
    /\ FetchedSeveral
    /\ transaction = <<>>
    /\ store0 = {}
    /\ store = {}

\* the last thing the loop did was a fetch that gave records, by a call
\* that is no inspect, and the first record is not in the store: the write
\* failed
FetchedNotStaged ==
    /\ events # <<>>
    /\ Fetched(Len(events))
    /\ events[Len(events)].err = Nil
    /\ ~fetchOnly
    /\ \A e \in store : e.rec # events[Len(events)].images[1]

\* C32: a write to the store that failed does not fail the call: the
\* records fetched are returned with no error, and the store is what it was
C32_WriteFailureTolerated ==
    FetchedNotStaged =>
       /\ pc = "done"
       /\ retErr = Nil
       /\ Len(foundImages) > 0
       /\ foundImages = events[Len(events)].images
       /\ store = store0

\* a call in a transaction returns the record fetched although the store
\* stays empty
C32_Witness ==
    /\ FetchedNotStaged
    /\ transaction # <<>>
    /\ pc = "done"
    /\ retErr = Nil
    /\ store = {}
    /\ Len(foundImages) = 1

\* no fetcher could be made for the endpoint of event i
NoFetcher(i) == events[i].kind = "no-fetcher"

\* the step is the one of the loop that failed to make a fetcher
NoFetcherStep ==
    /\ Len(events') = Len(events) + 1
    /\ events'[Len(events')].kind = "no-fetcher"

\* C33: when no fetcher can be made for an endpoint, the error of
\* newManifestFetcher becomes the last error whatever was kept before and
\* whether or not later errors are being discarded, and the loop goes on
\* with the next endpoint: nothing is returned at that step and the
\* tie-break state is left as it was
C33_NoFetcherContinues ==
    [][ NoFetcherStep =>
          /\ events'[Len(events')].err.code = "unknown version"
          /\ lastErr' = events'[Len(events')].err
          /\ pc = "loop" /\ pc' = "loop"
          /\ idx' = idx + 1
          /\ retErr' = retErr
          /\ foundImages' = foundImages
          /\ discardNoSupportErrors' = discardNoSupportErrors
          /\ confirmedTLSRegistries' = confirmedTLSRegistries
          /\ store' = store ]_vars

\* errors are being discarded after a recoverable error was kept, and the
\* error of the fetcher has taken its place; another endpoint is left
C33_Witness ==
    /\ pc = "loop"
    /\ Len(events) >= 2
    /\ NoFetcher(Len(events))
    /\ Fetched(Len(events) - 1)
    /\ RecoverableErr(events[Len(events) - 1].err)
    /\ discardNoSupportErrors
    /\ lastErr = events[Len(events)].err
    /\ lastErr.code = "unknown version"
    /\ idx <= Len(endpoints)

\* the loop went on after the failure and fetched from the next endpoint
C33_WitnessGoesOn ==
    \E i \in DOMAIN events :
       /\ NoFetcher(i)
       /\ i < Len(events)
       /\ Fetched(i + 1)
       /\ events[i + 1].err = Nil
       /\ pc = "done"
       /\ retErr = Nil

============================================================================
